---------------------------- MODULE Spec2Model ----------------------------
(***************************************************************************)
(* Model of the contract review pipeline: checklist lookup, text           *)
(* extraction, LLM-or-fallback evaluation, report rendering, stub upload   *)
(* and Telegram notification, behind the POST /review endpoint.            *)
(*                                                                         *)
(* Python strings whose characters matter (contract text, file names,      *)
(* keywords) are sequences of one-character strings.  Strings that are     *)
(* only compared or concatenated are TLA+ strings.  None is the string     *)
(* NoneStr; an optional object is a sequence of length 0 or 1.             *)
(***************************************************************************)
EXTENDS Integers, Sequences, FiniteSets, TLC

(***************************************************************************)
(* Bounds                                                                  *)
(***************************************************************************)
MaxTextLen == 3      \* longest contract text of the evaluator specification
MaxReqs == 2         \* most entries in one requirement map of a section
MaxItems == 2        \* most entries in the items list of an LLM response
MaxSections == 3     \* most sections in a catalog file
NumRequests == 2     \* requests of the concurrent specification
MaxIssues == 3       \* most items of an evaluation given to top_issues

(***************************************************************************)
(* Generic helpers                                                         *)
(***************************************************************************)
NoneStr == "<None>"
Absent == "<absent>"          \* a JSON object without that member
JNull == "<null>"             \* JSON null
JInt == "<int>"               \* a JSON number (non-zero)

Truthy(s) == s # NoneStr /\ s # ""

BoundedSeq(S, n) == UNION {[1..k -> S] : k \in 0..n}

Range(s) == {s[i] : i \in 1..Len(s)}

\* dict: insertion-ordered sequence of <<key, value>> pairs, keys distinct
IsDict(d) == \A i, j \in 1..Len(d) : d[i][1] = d[j][1] => i = j
\* F(e), with e evaluated once before F is applied to its value: the way a
\* Python call evaluates its argument
Apply(F(_), e) == CHOOSE r \in {F(v) : v \in {e}} : TRUE

DictKeys(d) == [i \in 1..Len(d) |-> d[i][1]]
HasKey(d, k) == \E i \in 1..Len(d) : d[i][1] = k
DictGet(d, k, default) ==
    IF HasKey(d, k) THEN d[CHOOSE i \in 1..Len(d) : d[i][1] = k][2] ELSE default

\* needle in haystack, on character sequences
IsSubstring(needle, haystack) ==
    \E off \in 0..(Len(haystack) - Len(needle)) :
        \A i \in 1..Len(needle) : haystack[off + i] = needle[i]

UpperToLower ==
    << <<"A","a">>, <<"B","b">>, <<"C","c">>, <<"D","d">>, <<"E","e">>,
       <<"F","f">>, <<"G","g">>, <<"H","h">>, <<"I","i">>, <<"J","j">>,
       <<"K","k">>, <<"L","l">>, <<"M","m">>, <<"N","n">>, <<"O","o">>,
       <<"P","p">>, <<"Q","q">>, <<"R","r">>, <<"S","s">>, <<"T","t">>,
       <<"U","u">>, <<"V","v">>, <<"W","w">>, <<"X","x">>, <<"Y","y">>,
       <<"Z","z">> >>

\* str.lower()
lower(text) == [i \in 1..Len(text) |-> DictGet(UpperToLower, text[i], text[i])]

(***************************************************************************)
(* models.py                                                               *)
(***************************************************************************)
\* StatusLiteral: the three status symbols, named by their code points
Satisfied == "U+2705"
Partial == "U+26A0 U+FE0F"
Missing == "U+274C"
StatusLiteral == {Satisfied, Partial, Missing}
CategoryLiteral == {"legal", "company"}

\* pydantic validation of ChecklistEvaluationItem(...)
ChecklistEvaluationItemValid(key, description, status, notes, category) ==
    /\ key \notin {NoneStr, JNull, JInt, Absent}
    /\ description \notin {NoneStr, JNull, JInt, Absent}
    /\ status \in StatusLiteral
    /\ notes \notin {NoneStr, JNull, JInt, Absent}
    /\ category \in CategoryLiteral

\* ChecklistEvaluation.status_counts
RECURSIVE CountStatus(_, _)
CountStatus(items, status) ==
    IF items = <<>> THEN 0
    ELSE (IF Head(items).status = status THEN 1 ELSE 0) + CountStatus(Tail(items), status)

\* status_counts counting the partial items as missing ones
status_counts_PartialAsMissing(evaluation) ==
    << <<Satisfied, CountStatus(evaluation.items, Satisfied)>>,
       <<Partial, 0>>,
       <<Missing, CountStatus(evaluation.items, Missing)
                  + CountStatus(evaluation.items, Partial)>> >>

status_counts(evaluation) ==
    << <<Satisfied, CountStatus(evaluation.items, Satisfied)>>,
       <<Partial, CountStatus(evaluation.items, Partial)>>,
       <<Missing, CountStatus(evaluation.items, Missing)>> >>

NoEvaluation == [summary |-> NoneStr, items |-> <<>>]

\* the code points of the characters of the keys that are compared
CodePoints == << <<"B", 66>>, <<"_", 95>>, <<"a", 97>>, <<"b", 98>> >>
ord(c) == DictGet(CodePoints, c, 0)

\* a < b on two str values
RECURSIVE str_less(_, _)
str_less(a, b) ==
    IF b = <<>> THEN FALSE
    ELSE IF a = <<>> THEN TRUE
    ELSE IF a[1] # b[1] THEN ord(a[1]) < ord(b[1])
    ELSE str_less(Tail(a), Tail(b))

\* the priority table of top_issues
priority(status) == IF status = Missing THEN 0 ELSE IF status = Partial THEN 1 ELSE 2

\* the sort key comparing the priorities only
sort_key_less_StatusOnly(x, y) == priority(x.status) < priority(y.status)

\* (priority[x.status], x.key) < (priority[y.status], y.key)
sort_key_less(x, y) ==
    \/ priority(x.status) < priority(y.status)
    \/ priority(x.status) = priority(y.status) /\ str_less(x.key, y.key)

\* sorted(items, key=...): a stable sort, item after item
RECURSIVE sorted_items(_)
sorted_items(items) ==
    IF items = <<>> THEN <<>>
    ELSE LET front == sorted_items(SubSeq(items, 1, Len(items) - 1))
             x == items[Len(items)]
             smaller == {i \in 1..Len(front) : ~sort_key_less(x, front[i])}
             at == IF smaller = {} THEN 0 ELSE CHOOSE i \in smaller : \A j \in smaller : j <= i
         IN  SubSeq(front, 1, at) \o <<x>> \o SubSeq(front, at + 1, Len(front))

\* seq[:limit]
slice_to(seq, limit) ==
    IF limit >= Len(seq) THEN seq
    ELSE IF limit >= 0 THEN SubSeq(seq, 1, limit)
    ELSE IF Len(seq) + limit > 0 THEN SubSeq(seq, 1, Len(seq) + limit)
    ELSE <<>>

\* ChecklistEvaluation.top_issues
top_issues(evaluation, limit) == slice_to(sorted_items(evaluation.items), limit)

(***************************************************************************)
(* llm_agent.py : HeuristicFallbackEngine                                  *)
(***************************************************************************)
positive_keywords ==
    <<
       <<"rent_review_clause", <<<<"r","e","n","t"," ","r","e","v","i","e","w">>,
           <<"c","p","i">>,
           <<"m","a","r","k","e","t"," ","r","e","n","t">>>>>>,
       <<"termination_clause", <<<<"t","e","r","m","i","n","a","t","e">>,
           <<"t","e","r","m","i","n","a","t","i","o","n">>,
           <<"b","r","e","a","c","h">>>>>>,
       <<"assignment_terms", <<<<"a","s","s","i","g","n">>,
           <<"a","s","s","i","g","n","m","e","n","t">>,
           <<"s","u","b","l","e","t">>>>>>,
       <<"force_majeure", <<<<"f","o","r","c","e"," ","m","a","j","e","u","r","e">>,
           <<"a","c","t"," ","o","f"," ","g","o","d">>>>>>,
       <<"notice", <<<<"n","o","t","i","c","e">>,
           <<"d","a","y","s","'"," ","n","o","t","i","c","e">>>>>>
    >>

\* _guess_status asking for every keyword of the key
guess_status_AllKeywords(key, contract_text) ==
    LET keywords == DictGet(positive_keywords, key, <<>>)
    IN  IF \A i \in 1..Len(keywords) : IsSubstring(keywords[i], contract_text)
        THEN Satisfied
        ELSE Partial

\* HeuristicFallbackEngine._guess_status (contract_text is already lowered)
guess_status(key, contract_text) ==
    LET keywords == DictGet(positive_keywords, key, <<>>)
    IN  IF \E i \in 1..Len(keywords) : IsSubstring(keywords[i], contract_text)
        THEN Satisfied
        ELSE Partial

\* key.replace("_", " ").title() for the requirement keys of the model
KeyTitle(key) ==
    CASE key = "rent_review_clause" -> "Rent Review Clause"
      [] key = "notice" -> "Notice"
      [] key = "parties_identified" -> "Parties Identified"
      [] OTHER -> key

FallbackSummary ==
    "Heuristic-only review because the LLM could not be reached. "
    \o "Statuses are estimates-rerun once API access is configured."

\* the nested build_items of HeuristicFallbackEngine.evaluate
build_items(requirements, category, lowered, reason) ==
    [i \in 1..Len(requirements) |->
        LET key == requirements[i][1]
            description == requirements[i][2]
            status == guess_status(key, lowered)
        IN  [key |-> key,
             description |-> IF Truthy(description) THEN description ELSE KeyTitle(key),
             status |-> status,
             notes |-> IF status = Satisfied THEN "Heuristic evaluation"
                       ELSE "Fallback (" \o reason \o ")",
             category |-> category]]

\* evaluate over the two maps merged into one: a key of both maps once
evaluate_Merged(contract_text, section, reason) ==
    LET lowered == lower(contract_text)
        company == SelectSeq(section.company_requirements,
                             LAMBDA e : ~HasKey(section.legal_requirements, e[1]))
    IN  [summary |-> FallbackSummary,
         items |-> build_items(section.legal_requirements, "legal", lowered, reason)
                   \o build_items(company, "company", lowered, reason)]

\* HeuristicFallbackEngine.evaluate
evaluate(contract_text, section, reason) ==
    LET lowered == lower(contract_text)
    IN  [summary |-> FallbackSummary,
         items |-> build_items(section.legal_requirements, "legal", lowered, reason)
                   \o build_items(section.company_requirements, "company", lowered, reason)]

(***************************************************************************)
(* llm_agent.py : response parsing                                         *)
(*                                                                         *)
(* A message is a sequence of lines.  A line is a code-fence line (three   *)
(* backticks followed by tag), a line holding one JSON document, a line    *)
(* of other text, or a blank line.  A JSON document is recorded by shape:  *)
(* its top-level type, its summary member, the type of its items member    *)
(* and the elements of that member; an element records its own type and    *)
(* its five members.  A member is a string, Absent, JNull or JInt.         *)
(***************************************************************************)
NoDoc == [shape |-> "none", summary |-> Absent, items_shape |-> "absent", items |-> <<>>]

FenceLine(tag) == [kind |-> "fence", tag |-> tag, doc |-> NoDoc]
JsonLine(doc) == [kind |-> "json", tag |-> "", doc |-> doc]
TextLine == [kind |-> "text", tag |-> "", doc |-> NoDoc]
BlankLine == [kind |-> "blank", tag |-> "", doc |-> NoDoc]

Returned(v) == [ok |-> TRUE, val |-> v, exc |-> ""]
Raised(v, e) == [ok |-> FALSE, val |-> v, exc |-> e]

\* str.strip() on lines: drop leading and trailing blank lines
RECURSIVE StripLeadingBlank(_)
StripLeadingBlank(lines) ==
    IF lines # <<>> /\ Head(lines).kind = "blank"
    THEN StripLeadingBlank(Tail(lines)) ELSE lines

RECURSIVE StripTrailingBlank(_)
StripTrailingBlank(lines) ==
    IF lines # <<>> /\ lines[Len(lines)].kind = "blank"
    THEN StripTrailingBlank(SubSeq(lines, 1, Len(lines) - 1)) ELSE lines

StripLines(lines) == StripTrailingBlank(StripLeadingBlank(lines))

\* json.loads: exactly one JSON document, surrounded by whitespace only
json_loads(lines) ==
    LET body == StripLines(lines)
    IN  IF Len(body) = 1 /\ body[1].kind = "json"
        THEN Returned(body[1].doc)
        ELSE Raised(NoDoc, "Expecting value: line 1 column 1 (char 0)")

\* _safe_json_loads without the removal of the code fence
safe_json_loads_NoFence(message) == json_loads(StripLines(message))

\* _safe_json_loads
safe_json_loads(message) ==
    LET cleaned == StripLines(message)
    IN  IF cleaned # <<>> /\ cleaned[1].kind = "fence"
        THEN IF Len(cleaned) = 1
             THEN Raised(NoDoc, "list index out of range")     \* split("\n", 1)[1]
             ELSE LET rest == Tail(cleaned)
                      last == rest[Len(rest)]
                  IN  IF last.kind = "fence" /\ last.tag = ""  \* endswith fence
                      THEN json_loads(SubSeq(rest, 1, Len(rest) - 1))
                      ELSE json_loads(rest)
        ELSE json_loads(cleaned)

\* _lookup_description
lookup_description(key, section) ==
    LET legal == DictGet(section.legal_requirements, key, NoneStr)
        company == DictGet(section.company_requirements, key, NoneStr)
    IN  IF Truthy(legal) THEN legal
        ELSE IF Truthy(company) THEN company
        ELSE "Description provided by LLM"

\* item.get(name, default)
ItemGet(value, default) == IF value = Absent THEN default ELSE value

\* parse_item replacing an unknown status by the default instead of failing
parse_item_DefaultStatus(item, section) ==
    IF item.shape # "obj" \/ item.key = Absent
    THEN <<>>
    ELSE LET given == ItemGet(item.description, NoneStr)
             description == IF Truthy(given) /\ given # JNull THEN given
                            ELSE lookup_description(item.key, section)
             status == IF item.status \in StatusLiteral THEN item.status ELSE Partial
             notes == ItemGet(item.notes, "")
             category == ItemGet(item.category, "legal")
         IN  IF ChecklistEvaluationItemValid(item.key, description, status, notes, category)
             THEN << [key |-> item.key, description |-> description, status |-> status,
                      notes |-> notes, category |-> category] >>
             ELSE <<>>

\* the body of the for loop of _parse_llm_response: the item built from one
\* element of the payload, or no item when building it raises
parse_item(item, section) ==
    IF item.shape # "obj" \/ item.key = Absent
    THEN <<>>                                        \* item["key"] raises
    ELSE LET given == ItemGet(item.description, NoneStr)
             description == IF Truthy(given) /\ given # JNull THEN given
                            ELSE lookup_description(item.key, section)
             status == ItemGet(item.status, Partial)
             notes == ItemGet(item.notes, "")
             category == ItemGet(item.category, "legal")
         IN  IF ChecklistEvaluationItemValid(item.key, description, status, notes, category)
             THEN << [key |-> item.key, description |-> description, status |-> status,
                      notes |-> notes, category |-> category] >>
             ELSE <<>>

RECURSIVE parse_items(_, _)
parse_items(items_payload, section) ==
    IF items_payload = <<>> THEN <<>>
    ELSE parse_item(Head(items_payload), section) \o parse_items(Tail(items_payload), section)

NoItemsMessage == "LLM response did not include any evaluation items."

\* _parse_llm_response without the check for an empty item list
parse_llm_response_NoEmptyCheck(message, section) ==
    LET loaded == safe_json_loads(message)
        parsed == loaded.val
    IN  IF ~loaded.ok THEN Raised(NoEvaluation, loaded.exc)
        ELSE IF parsed.shape # "obj"
        THEN Raised(NoEvaluation, "object has no attribute 'get'")
        ELSE IF parsed.items_shape \in {"null", "num"}
        THEN Raised(NoEvaluation, "object is not iterable")
        ELSE LET items == parse_items(parsed.items, section)
                 summary == ItemGet(parsed.summary, "Review completed.")
             IN  IF summary \in {JNull, JInt}
                 THEN Raised(NoEvaluation, "1 validation error for ChecklistEvaluation")
                 ELSE Returned([summary |-> summary, items |-> items])

\* _parse_llm_response
parse_llm_response(message, section) ==
    LET loaded == safe_json_loads(message)
        parsed == loaded.val
    IN  IF ~loaded.ok THEN Raised(NoEvaluation, loaded.exc)
        ELSE IF parsed.shape # "obj"
        THEN Raised(NoEvaluation, "object has no attribute 'get'")
        ELSE IF parsed.items_shape \in {"null", "num"}
        THEN Raised(NoEvaluation, "object is not iterable")
        ELSE LET items == parse_items(parsed.items, section)
                 summary == ItemGet(parsed.summary, "Review completed.")
             IN  IF items = <<>> THEN Raised(NoEvaluation, NoItemsMessage)
                 ELSE IF summary \in {JNull, JInt}
                 THEN Raised(NoEvaluation, "1 validation error for ChecklistEvaluation")
                 ELSE Returned([summary |-> summary, items |-> items])

(***************************************************************************)
(* llm_agent.py : ContractReviewAgent.review                               *)
(*                                                                         *)
(* The outcome of the POST to the LLM endpoint: a transport error, a       *)
(* timeout, or a response with a status code; body says how far            *)
(* data["choices"][0]["message"]["content"] gets, content is the message.  *)
(***************************************************************************)
\* llm_call without raise_for_status
llm_call_NoRaiseForStatus(outcome, section) ==
    IF outcome.kind = "connect_error" THEN Raised(NoEvaluation, "All connection attempts failed")
    ELSE IF outcome.kind = "timeout" THEN Raised(NoEvaluation, "ReadTimeout")
    ELSE IF outcome.status_code \div 100 # 2 \/ outcome.body = "not_json"
    THEN Raised(NoEvaluation, "Expecting value: line 1 column 1 (char 0)")
    ELSE IF outcome.body = "no_choices" THEN Raised(NoEvaluation, "'choices'")
    ELSE IF outcome.body = "empty_choices" THEN Raised(NoEvaluation, "list index out of range")
    ELSE IF outcome.body = "no_content" THEN Raised(NoEvaluation, "'content'")
    ELSE IF outcome.body = "null_content"
    THEN Raised(NoEvaluation, "'NoneType' object has no attribute 'strip'")
    ELSE parse_llm_response(outcome.content, section)

\* the try block of review, after the response or the transport failure
llm_call(outcome, section) ==
    IF outcome.kind = "connect_error" THEN Raised(NoEvaluation, "All connection attempts failed")
    ELSE IF outcome.kind = "timeout" THEN Raised(NoEvaluation, "ReadTimeout")
    ELSE IF outcome.status_code \div 100 # 2
    THEN Raised(NoEvaluation, "HTTPStatusError")                \* raise_for_status
    ELSE IF outcome.body = "not_json"
    THEN Raised(NoEvaluation, "Expecting value: line 1 column 1 (char 0)")
    ELSE IF outcome.body = "no_choices" THEN Raised(NoEvaluation, "'choices'")
    ELSE IF outcome.body = "empty_choices" THEN Raised(NoEvaluation, "list index out of range")
    ELSE IF outcome.body = "no_content" THEN Raised(NoEvaluation, "'content'")
    ELSE IF outcome.body = "null_content"
    THEN Raised(NoEvaluation, "'NoneType' object has no attribute 'strip'")
    ELSE parse_llm_response(outcome.content, section)

\* review_after_call without the catch-all except clause
review_after_call_NoCatchAll(contract_text, section, outcome) ==
    LET r == llm_call(outcome, section)
    IN  IF r.ok THEN Returned(r.val)
        ELSE IF r.exc = "HTTPStatusError"
        THEN Returned(evaluate(contract_text, section,
                               "API error: " \o ToString(outcome.status_code)))
        ELSE Raised(NoEvaluation, r.exc)

\* review from the point where the outbound call has ended: the try block
\* and its two except clauses
review_after_call(contract_text, section, outcome) ==
    LET r == llm_call(outcome, section)
    IN  IF r.ok THEN Returned(r.val)
        ELSE IF r.exc = "HTTPStatusError"
        THEN Returned(evaluate(contract_text, section,
                               "API error: " \o ToString(outcome.status_code)))
        ELSE Returned(evaluate(contract_text, section, r.exc))

\* review_calls_llm testing the credential against None only
review_calls_llm_NotNone(settings_) == settings_.openrouter_api_key # NoneStr

\* review up to the outbound call: TRUE when the call is made
review_calls_llm(settings_) == Truthy(settings_.openrouter_api_key)

\* review when no credential is configured
review_without_key(contract_text, section) ==
    Returned(evaluate(contract_text, section, "missing_api_key"))

(***************************************************************************)
(* ingestion.py                                                            *)
(*                                                                         *)
(* A file is its path name, its textual content and whether the reader of  *)
(* its format can read it (valid UTF-8, a well-formed PDF or DOCX).        *)
(***************************************************************************)
Whitespace == {" ", "\n", "\t"}

RECURSIVE LStrip(_, _)
LStrip(s, chars) ==
    IF s # <<>> /\ Head(s) \in chars THEN LStrip(Tail(s), chars) ELSE s

RECURSIVE RStrip(_, _)
RStrip(s, chars) ==
    IF s # <<>> /\ s[Len(s)] \in chars THEN RStrip(SubSeq(s, 1, Len(s) - 1), chars) ELSE s

\* str.strip(chars)
StripChars(s, chars) == RStrip(LStrip(s, chars), chars)

\* strip removing leading whitespace only
strip_LeftOnly(s) == LStrip(s, Whitespace)

\* str.strip()
strip(s) == StripChars(s, Whitespace)

\* str.endswith
EndsWith(s, suffix) ==
    /\ Len(s) >= Len(suffix)
    /\ SubSeq(s, Len(s) - Len(suffix) + 1, Len(s)) = suffix

UnsupportedFileTypeError == "UnsupportedFileTypeError"
EmptyDocumentError == "EmptyDocumentError"

\* extract_text comparing the suffix without lowering the name
extract_text_CaseSensitive(file, original_filename) ==
    LET suffix == IF original_filename # <<>> THEN original_filename ELSE file.name
        known == \/ EndsWith(suffix, <<".", "p", "d", "f">>)
                 \/ EndsWith(suffix, <<".", "d", "o", "c", "x">>)
                 \/ EndsWith(suffix, <<".", "t", "x", "t">>)
        cleaned == strip(file.content)
    IN  IF ~known THEN Raised(<<>>, UnsupportedFileTypeError)
        ELSE IF ~file.readable
        THEN Raised(<<>>, IF EndsWith(suffix, <<".", "p", "d", "f">>) THEN "PDFSyntaxError"
                          ELSE IF EndsWith(suffix, <<".", "d", "o", "c", "x">>)
                          THEN "PackageNotFoundError"
                          ELSE "UnicodeDecodeError")
        ELSE IF cleaned = <<>> THEN Raised(<<>>, EmptyDocumentError)
        ELSE Returned(cleaned)

\* extract_text
extract_text(file, original_filename) ==
    LET suffix == lower(IF original_filename # <<>> THEN original_filename ELSE file.name)
        known == \/ EndsWith(suffix, <<".", "p", "d", "f">>)
                 \/ EndsWith(suffix, <<".", "d", "o", "c", "x">>)
                 \/ EndsWith(suffix, <<".", "t", "x", "t">>)
        cleaned == strip(file.content)
    IN  IF ~known THEN Raised(<<>>, UnsupportedFileTypeError)
        ELSE IF ~file.readable
        THEN Raised(<<>>, IF EndsWith(suffix, <<".", "p", "d", "f">>) THEN "PDFSyntaxError"
                          ELSE IF EndsWith(suffix, <<".", "d", "o", "c", "x">>)
                          THEN "PackageNotFoundError"
                          ELSE "UnicodeDecodeError")
        ELSE IF cleaned = <<>> THEN Raised(<<>>, EmptyDocumentError)
        ELSE Returned(cleaned)

(***************************************************************************)
(* checklist_loader.py                                                     *)
(***************************************************************************)
\* loaded[key] = value on a dict kept in insertion order
DictSet(d, k, v) ==
    IF HasKey(d, k)
    THEN [i \in 1..Len(d) |-> IF d[i][1] = k THEN <<k, v>> ELSE d[i]]
    ELSE Append(d, <<k, v>>)

\* the for loop of _load_sections
RECURSIVE LoadFrom(_, _)
LoadFrom(loaded, raw_sections) ==
    IF raw_sections = <<>> THEN loaded
    ELSE LoadFrom(DictSet(loaded, raw_sections[1].id, raw_sections[1]), Tail(raw_sections))

\* _load_sections keeping one entry for every section of the file
load_sections_AppendAll(raw_sections) ==
    [i \in 1..Len(raw_sections) |-> <<raw_sections[i].id, raw_sections[i]>>]

\* ChecklistRepository._load_sections on the sections list of the file
load_sections(raw_sections) == LoadFrom(<<>>, raw_sections)

\* ChecklistRepository.list_sections
list_sections(sections_) == [i \in 1..Len(sections_) |-> sections_[i][2]]

\* the message of the KeyError of ChecklistRepository.get
not_found_message(section_id) == "Checklist section '" \o section_id \o "' not found"

\* repo_get answering an unknown id with the first loaded section
repo_get_Lenient(sections_, section_id) ==
    IF ~HasKey(sections_, section_id)
    THEN Returned(<<sections_[1][2]>>)
    ELSE Returned(<<DictGet(sections_, section_id, <<>>)>>)

\* ChecklistRepository.get on the loaded sections (a dict id -> section)
repo_get(sections_, section_id) ==
    IF ~HasKey(sections_, section_id)
    THEN Raised(<<>>, "KeyError")
    ELSE Returned(<<DictGet(sections_, section_id, <<>>)>>)

(***************************************************************************)
(* review_service.py, report_generator.py, drive_client.py                 *)
(***************************************************************************)
Letters == {UpperToLower[i][1] : i \in 1..Len(UpperToLower)}
           \cup {UpperToLower[i][2] : i \in 1..Len(UpperToLower)}
Digits == {"0", "1", "2", "3", "4", "5", "6", "7", "8", "9"}

upper_char(c) ==
    IF \E i \in 1..Len(UpperToLower) : UpperToLower[i][2] = c
    THEN UpperToLower[CHOOSE i \in 1..Len(UpperToLower) : UpperToLower[i][2] = c][1]
    ELSE c

\* Path(filename).stem
stem(filename) ==
    LET dots == {i \in 1..Len(filename) : filename[i] = "."}
        last == IF dots = {} THEN 0 ELSE CHOOSE i \in dots : \A j \in dots : j <= i
    IN  IF last > 1 /\ last < Len(filename) THEN SubSeq(filename, 1, last - 1) ELSE filename

\* str.title()
title(s) ==
    [i \in 1..Len(s) |->
        IF i = 1 \/ s[i - 1] \notin Letters THEN upper_char(s[i])
        ELSE DictGet(UpperToLower, s[i], s[i])]

\* _derive_contract_title
derive_contract_title(filename) ==
    LET spaced(st) == [i \in 1..Len(st) |-> IF st[i] = "_" THEN " " ELSE st[i]]
        or_default(titled) ==
            IF titled # <<>> THEN titled ELSE <<"C", "o", "n", "t", "r", "a", "c", "t">>
    IN  Apply(or_default, Apply(title, Apply(spaced, stem(filename))))

\* str.replace("--", "-"): one left-to-right pass over non-overlapping matches
RECURSIVE ReplaceDoubleDash(_)
ReplaceDoubleDash(s) ==
    IF Len(s) < 2 THEN s
    ELSE IF s[1] = "-" /\ s[2] = "-" THEN <<"-">> \o ReplaceDoubleDash(SubSeq(s, 3, Len(s)))
    ELSE <<s[1]>> \o ReplaceDoubleDash(Tail(s))

\* the while loop of _slugify
RECURSIVE CollapseDashes(_)
CollapseDashes(result) ==
    IF IsSubstring(<<"-", "-">>, result) THEN CollapseDashes(ReplaceDoubleDash(result))
    ELSE result

\* the capital I with a dot above, and the combining dot its lowercase
\* form ends with; both are named by their code points
DottedI == "U+0130"
CombiningDot == "U+0307"

\* char.isalnum()
isalnum(c) == c \in Letters \cup Digits \cup {DottedI}

\* char.lower(): a string of one character, or of two for DottedI
char_lower(c) ==
    IF c = DottedI THEN <<"i", CombiningDot>> ELSE <<DictGet(UpperToLower, c, c)>>

\* "".join(parts)
RECURSIVE join(_)
join(parts) == IF parts = <<>> THEN <<>> ELSE Head(parts) \o join(Tail(parts))

\* _slugify
slugify(value) ==
    LET safe(stripped) ==
            join([i \in 1..Len(stripped) |->
                     IF isalnum(stripped[i]) THEN char_lower(stripped[i]) ELSE <<"-">>])
        trimmed(s) == StripChars(s, {"-"})
        result(s) == IF s # <<>> THEN s ELSE <<"c", "o", "n", "t", "r", "a", "c", "t">>
    IN  Apply(CollapseDashes, Apply(result, Apply(trimmed, Apply(safe, strip(value)))))

Timestamp == "<now>"           \* datetime.now(timezone.utc), opaque

\* str.title() of a category
category_title(category) == IF category = "legal" THEN "Legal" ELSE "Company"

\* notes.replace('|', '/') on the notes texts that hold a pipe character
replace_pipe(notes) ==
    IF notes = "Clause 4 | Clause 5" THEN "Clause 4 / Clause 5" ELSE notes

\* ReportGenerator._build_markdown: the parts of the rendered text
build_markdown(contract_title, section, evaluation) ==
    [heading |-> <<"# Contract Review Report", contract_title>>,
     generated |-> Timestamp,
     jurisdiction |-> section.jurisdiction,
     contract_type |-> section.contract_type,
     version |-> section.version,
     summary |-> evaluation.summary,
     overview |-> status_counts(evaluation),
     rows |-> [i \in 1..Len(evaluation.items) |->
                  [category |-> category_title(evaluation.items[i].category),
                   description |-> evaluation.items[i].description,
                   status |-> evaluation.items[i].status,
                   notes |-> replace_pipe(evaluation.items[i].notes)]]]

\* ReportGenerator.generate; the rendered markdown is passed to the artifact
\* as the keyword content, which ReportArtifact does not declare and drops
generate(contract_title, section, evaluation) ==
    [contract_title |-> contract_title,
     generated_at |-> Timestamp,
     local_path |-> [scheme |-> "in-memory://", slug |-> slugify(contract_title),
                     stamp |-> Timestamp, suffix |-> ".md"],
     drive_link |-> <<>>,
     evaluation |-> evaluation]

\* DriveService.upload_report
upload_report(report_path) ==
    [base |-> "https://drive.google.com/demo/", slug |-> report_path.slug,
     stamp |-> report_path.stamp]

(***************************************************************************)
(* telegram_client.py                                                      *)
(***************************************************************************)
\* the status keys as telegram_client.py spells them (mis-decoded symbols)
NotifierSatisfied == "U+00E2 U+0153 U+2026"
NotifierPartial == "U+00E2 U+0161 U+00A0 U+00EF U+00B8"
NotifierMissing == "U+00E2 U+0152"

\* TelegramNotifier._build_review_notification: the message parts, or the
\* KeyError of a status_counts[...] lookup
build_review_notification(evaluation) ==
    LET counts == status_counts(evaluation)
    IN  IF ~HasKey(counts, NotifierSatisfied) THEN Raised(<<>>, "KeyError")
        ELSE IF ~HasKey(counts, NotifierPartial) THEN Raised(<<>>, "KeyError")
        ELSE IF ~HasKey(counts, NotifierMissing) THEN Raised(<<>>, "KeyError")
        ELSE
          LET compliant_count == DictGet(counts, NotifierSatisfied, 0)
              needs_review_count == DictGet(counts, NotifierPartial, 0)
                                    + DictGet(counts, NotifierMissing, 0)
              critical_count == DictGet(counts, NotifierMissing, 0)
              critical_issues == SelectSeq(evaluation.items,
                                           LAMBDA item : item.status = NotifierMissing)
          IN  Returned(
                <<"Boss, there is a new contract review.">>
                \o (IF critical_count > 0 /\ critical_issues # <<>>
                    THEN <<"Critical issues found:", critical_issues[1].description>>
                    ELSE <<>>)
                \o <<ToString(compliant_count) \o " clauses compliant, "
                     \o ToString(needs_review_count) \o " need review">>)

NoDispatch == [sent |-> FALSE, message_id |-> NoneStr, error |-> NoneStr]

\* the try block of notify_review_complete and its except clause
send_message(outcome) ==
    IF outcome.kind = "connect_error"
    THEN [sent |-> FALSE, message_id |-> NoneStr, error |-> "All connection attempts failed"]
    ELSE IF outcome.kind = "timeout"
    THEN [sent |-> FALSE, message_id |-> NoneStr, error |-> "ReadTimeout"]
    ELSE IF outcome.status_code \div 100 # 2
    THEN [sent |-> FALSE, message_id |-> NoneStr,
          error |-> "Client error " \o ToString(outcome.status_code)]
    ELSE IF outcome.body = "not_json"
    THEN [sent |-> FALSE, message_id |-> NoneStr,
          error |-> "Expecting value: line 1 column 1 (char 0)"]
    ELSE IF outcome.body = "not_object"
    THEN [sent |-> FALSE, message_id |-> NoneStr, error |-> "object has no attribute 'get'"]
    ELSE IF outcome.body = "no_result"
    THEN [sent |-> TRUE, message_id |-> "None", error |-> NoneStr]
    ELSE [sent |-> TRUE, message_id |-> outcome.message_id, error |-> NoneStr]

\* notify_review_complete skipping only when both credentials are missing
notify_review_complete_BothMissing(settings_, evaluation, outcome) ==
    IF ~Truthy(settings_.telegram_bot_token) /\ ~Truthy(settings_.telegram_boss_chat_id)
    THEN [ok |-> TRUE, exc |-> "", called |-> FALSE,
          val |-> [sent |-> FALSE, message_id |-> NoneStr,
                   error |-> "Telegram credentials missing; skipped notification."]]
    ELSE LET message_body == build_review_notification(evaluation)
         IN  IF ~message_body.ok
             THEN [ok |-> FALSE, exc |-> message_body.exc, called |-> FALSE, val |-> NoDispatch]
             ELSE [ok |-> TRUE, exc |-> "", called |-> TRUE, val |-> send_message(outcome)]

\* TelegramNotifier.notify_review_complete; called says whether the
\* outbound call was made
notify_review_complete(settings_, evaluation, outcome) ==
    IF ~Truthy(settings_.telegram_bot_token) \/ ~Truthy(settings_.telegram_boss_chat_id)
    THEN [ok |-> TRUE, exc |-> "", called |-> FALSE,
          val |-> [sent |-> FALSE, message_id |-> NoneStr,
                   error |-> "Telegram credentials missing; skipped notification."]]
    ELSE LET message_body == build_review_notification(evaluation)
         IN  IF ~message_body.ok
             THEN [ok |-> FALSE, exc |-> message_body.exc, called |-> FALSE, val |-> NoDispatch]
             ELSE [ok |-> TRUE, exc |-> "", called |-> TRUE, val |-> send_message(outcome)]

(***************************************************************************)
(* Inputs of the pipeline                                                  *)
(***************************************************************************)
Section(id, legal, company) ==
    [id |-> id, jurisdiction |-> "Queensland", contract_type |-> "Commercial Lease",
     version |-> "1.0", legal_requirements |-> legal, company_requirements |-> company]

\* the catalog the repository has loaded: a section with requirements in
\* both maps (one description missing), a section with two empty maps and
\* a section whose two maps share a key
Catalog ==
    << <<"QLD_COMMERCIAL_LEASE",
         Section("QLD_COMMERCIAL_LEASE",
                 << <<"parties_identified", "Clearly identify landlord and tenant.">>,
                    <<"rent_review_clause", NoneStr>> >>,
                 << <<"notice", "Provide at least 30 days written notice.">> >>)>>,
       <<"SECTION_1", Section("SECTION_1", <<>>, <<>>)>>,
       <<"SHARED_KEYS",
         Section("SHARED_KEYS",
                 << <<"notice", "Notice required by statute.">> >>,
                 << <<"notice", "Notice required by company policy.">> >>)>> >>

SectionIds == Range(DictKeys(Catalog)) \cup {"INVALID_SECTION"}

CredentialValues(secret) == {NoneStr, "", secret}

SettingsValues ==
    [openrouter_api_key : CredentialValues("sk-or-key"),
     telegram_bot_token : CredentialValues("bot-token"),
     telegram_boss_chat_id : CredentialValues("chat-id")]

\* the contract_text form field: absent, blank, or a text
FormTexts == {<<>>, << <<" ", "\n">> >>, << <<"C", "P", "I", "\n">> >>}

Upload(filename, content, readable) ==
    [filename |-> filename, content |-> content, readable |-> readable]

\* the contract_file form field: absent, or an upload
FormFiles ==
    {<<>>,
     <<Upload(<<"l", ".", "T", "X", "T">>, <<" ", "n", "o", "t", "i", "c", "e", " ">>, TRUE)>>,
     <<Upload(<<"s", ".", "p", "d", "f">>, <<"\n">>, TRUE)>>,
     <<Upload(<<"l", ".", "d", "o", "c", "x">>, <<"x">>, FALSE)>>,
     <<Upload(<<"d", ".", "x", "l", "s", "x">>, <<"x">>, TRUE)>>,
     <<Upload(<<>>, <<"x">>, TRUE)>>}

LLMItem(shape, key, description, status, notes, category) ==
    [shape |-> shape, key |-> key, description |-> description, status |-> status,
     notes |-> notes, category |-> category]

ValidItemValues ==
    {LLMItem("obj", "rent_review_clause", "Rent review", Missing, "No clause.", "company"),
     LLMItem("obj", "notice", Absent, Absent, Absent, Absent),
     LLMItem("obj", "made_up_key", JNull, Satisfied, "", "legal")}

InvalidItemValues ==
    {LLMItem("obj", Absent, "No key", Satisfied, "", "legal"),
     LLMItem("obj", "notice", "Bad status", "unknown", "", "legal")}

ItemValues == ValidItemValues \cup InvalidItemValues

StrItem == LLMItem("str", Absent, Absent, Absent, Absent, Absent)

JsonDoc(shape, summary, items_shape, items) ==
    [shape |-> shape, summary |-> summary, items_shape |-> items_shape, items |-> items]

ListDocs ==
    {JsonDoc("obj", "Looks fine.", "list", items) : items \in BoundedSeq(ItemValues, MaxItems)}
    \cup {JsonDoc("obj", summary, "list", items) :
            summary \in {Absent, JNull, JInt}, items \in BoundedSeq(ItemValues, 1)}

OddDocs ==
    {JsonDoc("obj", "Looks fine.", "absent", <<>>),
     JsonDoc("obj", "Looks fine.", "null", <<>>),
     JsonDoc("obj", "Looks fine.", "num", <<>>),
     JsonDoc("obj", "Looks fine.", "str", <<StrItem, StrItem>>),
     JsonDoc("list", Absent, "absent", <<>>),
     JsonDoc("str", Absent, "absent", <<>>),
     JsonDoc("null", Absent, "absent", <<>>)}

FencedDocs == {d \in ListDocs : d.summary = "Looks fine." /\ Len(d.items) <= 1}

Messages ==
    {<<JsonLine(d)>> : d \in ListDocs \cup OddDocs}
    \cup {<<FenceLine("json"), JsonLine(d), FenceLine("")>> : d \in FencedDocs}
    \cup {<<BlankLine, FenceLine(""), JsonLine(d), FenceLine(""), BlankLine>> : d \in FencedDocs}
    \cup {<<FenceLine("json"), JsonLine(d)>> : d \in FencedDocs}
    \cup {<<>>, <<TextLine>>, <<FenceLine("json")>>, <<TextLine, JsonLine(NoDoc)>>}

HttpOutcome(kind, status_code, body, content) ==
    [kind |-> kind, status_code |-> status_code, body |-> body, content |-> content]

LLMOutcomes ==
    {HttpOutcome("connect_error", 0, "", <<>>), HttpOutcome("timeout", 0, "", <<>>)}
    \cup {HttpOutcome("response", code, "", <<>>) : code \in {401, 429, 500}}
    \cup {HttpOutcome("response", 200, body, <<>>) :
            body \in {"not_json", "no_choices", "empty_choices", "no_content", "null_content"}}
    \cup {HttpOutcome("response", 200, "content", message) : message \in Messages}

TelegramOutcome(kind, status_code, body, message_id) ==
    [kind |-> kind, status_code |-> status_code, body |-> body, message_id |-> message_id]

TelegramOutcomes ==
    {TelegramOutcome("connect_error", 0, "", ""), TelegramOutcome("timeout", 0, "", ""),
     TelegramOutcome("response", 403, "", ""), TelegramOutcome("response", 200, "not_json", ""),
     TelegramOutcome("response", 200, "not_object", ""),
     TelegramOutcome("response", 200, "no_result", ""),
     TelegramOutcome("response", 200, "result", "42")}

(***************************************************************************)
(* State                                                                   *)
(***************************************************************************)
VARIABLES
    settings,           \* Settings: the three credentials
    sections,           \* ChecklistRepository._sections
    pc,                 \* where the request is
    request,            \* the form fields of the POST /review request
    tmp_file,           \* the temporary file of the request, when it exists
    original_filename,  \* main.py: original_filename
    section,            \* review_contract: section
    contract_text,      \* review_contract: contract_text
    llm_outcome,        \* the outcome of the LLM call, once it has ended
    llm_calls,          \* number of outbound LLM calls made
    evaluation,         \* review_contract: evaluation
    report,             \* review_contract: report
    drive_link,         \* review_contract: drive_link
    telegram_calls,     \* number of outbound Telegram calls made
    raised,             \* the exception propagating out of review_contract
    results,            \* the tuple review_contract returned
    status_code,        \* status code of the response, 0 before it
    response_error,     \* context["error"] of the response
    stages,             \* the stages of review_contract started so far
    fb_section,         \* evaluator specification: the section
    fb_text,            \* evaluator specification: the contract text
    fb_reason,          \* evaluator specification: the fallback reason
    fb_result,          \* evaluator specification: the evaluation returned
    disk,               \* the files of the report storage directory
    ex_file,            \* unit specification: the file given to extract_text
    ex_filename,        \* unit specification: the declared file name, <<>> for None
    ex_result,          \* unit specification: what extract_text returned or raised
    rp_raw,             \* unit specification: the sections list of the catalog file
    rp_id,              \* unit specification: the id given to ChecklistRepository.get
    rp_listed,          \* unit specification: what list_sections returned
    rp_got,             \* unit specification: what get returned or raised
    ti_items,           \* unit specification: the items of the evaluation of top_issues
    ti_limit,           \* unit specification: the limit given to top_issues
    ti_result,          \* unit specification: what top_issues returned
    sl_value,           \* unit specification: the string given to _slugify
    sl_result,          \* unit specification: what _slugify returned
    creqs,              \* concurrent specification: the state of every request
    tmp_dir             \* concurrent specification: the temporary files that exist

pipelineVars == <<pc, request, tmp_file, original_filename, section, contract_text,
                  llm_outcome, llm_calls, evaluation, report, drive_link, telegram_calls,
                  raised, results, status_code, response_error, stages>>
fbVars == <<fb_section, fb_text, fb_reason, fb_result>>
exVars == <<ex_file, ex_filename, ex_result>>
rpVars == <<rp_raw, rp_id, rp_listed, rp_got>>
tiVars == <<ti_items, ti_limit, ti_result>>
slVars == <<sl_value, sl_result>>
unitVars == <<exVars, rpVars, tiVars, slVars>>
concVars == <<creqs, tmp_dir>>
offlineVars == <<fbVars, unitVars, concVars>>
configVars == <<settings, sections, disk>>

vars == <<configVars, pipelineVars, fbVars, unitVars, concVars>>

NoRequest ==
    [checklist_section |-> "", contract_text |-> <<>>, contract_file |-> <<>>,
     upload_read |-> FALSE]

PipelineIdle ==
    /\ pc = "idle"
    /\ request = NoRequest
    /\ tmp_file = <<>>
    /\ original_filename = <<>>
    /\ section = <<>>
    /\ contract_text = <<>>
    /\ llm_outcome = <<>>
    /\ llm_calls = 0
    /\ evaluation = <<>>
    /\ report = <<>>
    /\ drive_link = <<>>
    /\ telegram_calls = 0
    /\ raised = <<>>
    /\ results = <<>>
    /\ status_code = 0
    /\ response_error = NoneStr
    /\ stages = <<>>

FallbackIdle ==
    /\ fb_section = Section("", <<>>, <<>>)
    /\ fb_text = <<>>
    /\ fb_reason = ""
    /\ fb_result = <<>>

NoFile == [name |-> <<>>, content |-> <<>>, readable |-> FALSE]

UnitIdle ==
    /\ ex_file = NoFile
    /\ ex_filename = <<>>
    /\ ex_result = <<>>
    /\ rp_raw = <<>>
    /\ rp_id = ""
    /\ rp_listed = <<>>
    /\ rp_got = <<>>
    /\ ti_items = <<>>
    /\ ti_limit = 0
    /\ ti_result = <<>>
    /\ sl_value = <<>>
    /\ sl_result = <<>>

ConcIdle ==
    /\ creqs = <<>>
    /\ tmp_dir = {}

\* the state after main.py has built settings, repo and review_service
Init ==
    /\ settings \in SettingsValues
    /\ sections = Catalog
    /\ disk = {}
    /\ PipelineIdle
    /\ FallbackIdle
    /\ UnitIdle
    /\ ConcIdle

(***************************************************************************)
(* main.py : POST /review, up to the call of review_contract               *)
(***************************************************************************)
Exception(type, message, origin) == [type |-> type, message |-> message, origin |-> origin]

SampleContractTxt ==
    <<"s", "a", "m", "p", "l", "e", "_", "c", "o", "n", "t", "r", "a", "c", "t",
      ".", "t", "x", "t">>

\* the text taken whenever the field is present, blank or not
use_text_NotNone(form_text) == form_text # <<>>

\* use_text = contract_text is not None and contract_text.strip()
use_text(form_text) == form_text # <<>> /\ strip(form_text[1]) # <<>>
use_file(form_file) == form_file # <<>> /\ form_file[1].filename # <<>>

PostReview(checklist_section, form_text, form_file, write_ok) ==
    /\ pc = "idle"
    \* upload_read: await contract_file.read() is evaluated, which happens in
    \* the else branch only, before buffer.write is called
    /\ request' = [checklist_section |-> checklist_section, contract_text |-> form_text,
                   contract_file |-> form_file,
                   upload_read |-> ~use_text(form_text) /\ use_file(form_file)]
    /\ IF ~use_text(form_text) /\ ~use_file(form_file)
       THEN /\ status_code' = 400
            /\ response_error' = "Please upload a contract file or provide contract text."
            /\ pc' = "responded"
            /\ UNCHANGED <<tmp_file, original_filename>>
       ELSE IF ~write_ok
       THEN \* buffer.write raises inside the with block: the file made with
            \* delete=False stays, and the error leaves the handler before
            \* the try statement is entered
            /\ tmp_file' = << [name |-> IF use_text(form_text)
                                        THEN <<"t", "m", "p", ".", "t", "x", "t">>
                                        ELSE <<"t", "m", "p">>,
                               content |-> <<>>, readable |-> TRUE] >>
            /\ status_code' = 500
            /\ response_error' = "Internal Server Error"
            /\ pc' = "responded"
            /\ UNCHANGED original_filename
       ELSE /\ IF use_text(form_text)
               THEN /\ tmp_file' = << [name |-> <<"t", "m", "p", ".", "t", "x", "t">>,
                                       content |-> form_text[1], readable |-> TRUE] >>
                    /\ original_filename' = SampleContractTxt
               ELSE /\ tmp_file' = << [name |-> <<"t", "m", "p">>,
                                       content |-> form_file[1].content,
                                       readable |-> form_file[1].readable] >>
                    /\ original_filename' = form_file[1].filename
            /\ pc' = "lookup"
            /\ UNCHANGED <<status_code, response_error>>
    /\ UNCHANGED <<section, contract_text, llm_outcome, llm_calls, evaluation, report,
                   drive_link, telegram_calls, raised, results, stages>>
    /\ UNCHANGED configVars
    /\ UNCHANGED offlineVars

(***************************************************************************)
(* review_service.py : ReviewService.review_contract, stage by stage       *)
(***************************************************************************)
ExtractMessage(type) ==
    IF type = UnsupportedFileTypeError
    THEN "Only PDF, DOCX, and TXT files are supported in the demo."
    ELSE IF type = EmptyDocumentError
    THEN "Could not extract text from the provided contract."
    ELSE type

\* the document extracted before the section is looked up
Lookup_ExtractFirst ==
    /\ pc = "lookup"
    /\ stages' = Append(stages, "lookup")
    /\ LET r == repo_get(sections, request.checklist_section)
           e == extract_text(tmp_file[1], original_filename)
       IN  IF ~e.ok
           THEN /\ raised' = <<Exception(e.exc, ExtractMessage(e.exc), "extract")>>
                /\ pc' = "except"
                /\ UNCHANGED section
           ELSE IF r.ok
           THEN /\ section' = r.val
                /\ pc' = "extract"
                /\ UNCHANGED raised
           ELSE /\ raised' = <<Exception("KeyError",
                                         not_found_message(request.checklist_section),
                                         "lookup")>>
                /\ pc' = "except"
                /\ UNCHANGED section
    /\ UNCHANGED <<request, tmp_file, original_filename, contract_text, llm_outcome,
                   llm_calls, evaluation, report, drive_link, telegram_calls, results,
                   status_code, response_error>>
    /\ UNCHANGED configVars
    /\ UNCHANGED offlineVars

\* section = self.repo.get(section_id)
Lookup ==
    /\ pc = "lookup"
    /\ stages' = Append(stages, "lookup")
    /\ LET r == repo_get(sections, request.checklist_section)
       IN  IF r.ok
           THEN /\ section' = r.val
                /\ pc' = "extract"
                /\ UNCHANGED raised
           ELSE /\ raised' = <<Exception("KeyError",
                                         not_found_message(request.checklist_section),
                                         "lookup")>>
                /\ pc' = "except"
                /\ UNCHANGED section
    /\ UNCHANGED <<request, tmp_file, original_filename, contract_text, llm_outcome,
                   llm_calls, evaluation, report, drive_link, telegram_calls, results,
                   status_code, response_error>>
    /\ UNCHANGED configVars
    /\ UNCHANGED offlineVars

\* contract_text = extract_text(file_path, original_filename)
Extract ==
    /\ pc = "extract"
    /\ stages' = Append(stages, "extract")
    /\ LET r == extract_text(tmp_file[1], original_filename)
       IN  IF r.ok
           THEN /\ contract_text' = r.val
                /\ pc' = "review"
                /\ UNCHANGED raised
           ELSE /\ raised' = <<Exception(r.exc, ExtractMessage(r.exc), "extract")>>
                /\ pc' = "except"
                /\ UNCHANGED contract_text
    /\ UNCHANGED <<request, tmp_file, original_filename, section, llm_outcome, llm_calls,
                   evaluation, report, drive_link, telegram_calls, results, status_code,
                   response_error>>
    /\ UNCHANGED configVars
    /\ UNCHANGED offlineVars

\* evaluation = await self.agent.review(...): up to the outbound call, or to
\* the return of the fallback evaluation when no credential is configured
ReviewStart ==
    /\ pc = "review"
    /\ stages' = Append(stages, "evaluate")
    /\ IF review_calls_llm(settings)
       THEN /\ llm_calls' = llm_calls + 1
            /\ pc' = "llm_wait"
            /\ UNCHANGED evaluation
       ELSE /\ evaluation' = <<review_without_key(contract_text, section[1]).val>>
            /\ pc' = "render"
            /\ UNCHANGED llm_calls
    /\ UNCHANGED <<request, tmp_file, original_filename, section, contract_text, llm_outcome,
                   report, drive_link, telegram_calls, raised, results, status_code,
                   response_error>>
    /\ UNCHANGED configVars
    /\ UNCHANGED offlineVars

\* the outbound LLM call ends and review returns
LLMRespond(outcome) ==
    /\ pc = "llm_wait"
    /\ llm_outcome' = <<outcome>>
    /\ LET r == review_after_call(contract_text, section[1], outcome)
       IN  IF r.ok
           THEN /\ evaluation' = <<r.val>>
                /\ pc' = "render"
                /\ UNCHANGED raised
           ELSE /\ raised' = <<Exception("Exception", r.exc, "evaluate")>>
                /\ pc' = "except"
                /\ UNCHANGED evaluation
    /\ UNCHANGED <<request, tmp_file, original_filename, section, contract_text, llm_calls,
                   report, drive_link, telegram_calls, results, status_code, response_error,
                   stages>>
    /\ UNCHANGED configVars
    /\ UNCHANGED offlineVars

\* report = self.reporter.generate(...)
Render ==
    /\ pc = "render"
    /\ stages' = Append(stages, "render")
    /\ report' = <<generate(derive_contract_title(original_filename), section[1],
                            evaluation[1])>>
    /\ pc' = "upload"
    /\ UNCHANGED <<request, tmp_file, original_filename, section, contract_text, llm_outcome,
                   llm_calls, evaluation, drive_link, telegram_calls, raised, results,
                   status_code, response_error>>
    /\ UNCHANGED configVars
    /\ UNCHANGED offlineVars

\* drive_link = self.drive.upload_report(report.local_path)
UploadReport ==
    /\ pc = "upload"
    /\ stages' = Append(stages, "upload")
    /\ drive_link' = <<upload_report(report[1].local_path)>>
    /\ pc' = "attach"
    /\ UNCHANGED <<request, tmp_file, original_filename, section, contract_text, llm_outcome,
                   llm_calls, evaluation, report, telegram_calls, raised, results,
                   status_code, response_error>>
    /\ UNCHANGED configVars
    /\ UNCHANGED offlineVars

\* the assignment of the drive link left out
AttachLink_Skip ==
    /\ pc = "attach"
    /\ stages' = Append(stages, "attach")
    /\ pc' = "notify"
    /\ UNCHANGED <<request, tmp_file, original_filename, section, contract_text, llm_outcome,
                   llm_calls, evaluation, report, drive_link, telegram_calls, raised, results,
                   status_code, response_error>>
    /\ UNCHANGED configVars
    /\ UNCHANGED offlineVars

\* report.drive_link = drive_link
AttachLink ==
    /\ pc = "attach"
    /\ stages' = Append(stages, "attach")
    /\ report' = <<[report[1] EXCEPT !.drive_link = drive_link]>>
    /\ pc' = "notify"
    /\ UNCHANGED <<request, tmp_file, original_filename, section, contract_text, llm_outcome,
                   llm_calls, evaluation, drive_link, telegram_calls, raised, results,
                   status_code, response_error>>
    /\ UNCHANGED configVars
    /\ UNCHANGED offlineVars

\* telegram_result = await self.notifier.notify_review_complete(...) and the
\* return of the four results
Notify(outcome) ==
    /\ pc = "notify"
    /\ stages' = Append(stages, "notify")
    /\ LET r == notify_review_complete(settings, evaluation[1], outcome)
       IN  /\ telegram_calls' = IF r.called THEN telegram_calls + 1 ELSE telegram_calls
           /\ IF r.ok
              THEN /\ results' = << [evaluation |-> evaluation[1], report |-> report[1],
                                     drive_link |-> drive_link[1],
                                     telegram_result |-> r.val] >>
                   /\ pc' = "return"
                   /\ UNCHANGED raised
              ELSE /\ raised' = <<Exception(r.exc, NotifierSatisfied, "notify")>>
                   /\ pc' = "except"
                   /\ UNCHANGED results
    /\ UNCHANGED <<request, tmp_file, original_filename, section, contract_text, llm_outcome,
                   llm_calls, evaluation, report, drive_link, status_code, response_error>>
    /\ UNCHANGED configVars
    /\ UNCHANGED offlineVars

(***************************************************************************)
(* main.py : POST /review, after the call of review_contract               *)
(***************************************************************************)
\* the try body after the call returned, and the finally clause
RespondOk ==
    /\ pc = "return"
    /\ status_code' = 200
    /\ tmp_file' = <<>>
    /\ pc' = "responded"
    /\ UNCHANGED <<request, original_filename, section, contract_text, llm_outcome,
                   llm_calls, evaluation, report, drive_link, telegram_calls, raised,
                   results, response_error, stages>>
    /\ UNCHANGED configVars
    /\ UNCHANGED offlineVars

\* except_status with the lookup KeyError handled as a client error
except_status_KeyErrorAs400(type) ==
    IF type \in {UnsupportedFileTypeError, EmptyDocumentError, "KeyError"} THEN 400 ELSE 500

\* the status code the except clauses give an exception type
except_status(type) ==
    IF type \in {UnsupportedFileTypeError, EmptyDocumentError} THEN 400 ELSE 500

\* the except clauses never reaching the response
RespondError_Hang ==
    /\ pc = "except"
    /\ UNCHANGED <<request, tmp_file, original_filename, section, contract_text, llm_outcome,
                   llm_calls, evaluation, report, drive_link, telegram_calls, raised,
                   results, status_code, response_error, stages, pc>>
    /\ UNCHANGED configVars
    /\ UNCHANGED offlineVars

\* the two except clauses, and the finally clause
RespondError ==
    /\ pc = "except"
    /\ status_code' = except_status(raised[1].type)
    /\ response_error' = IF except_status(raised[1].type) = 400 THEN raised[1].message
                         ELSE "Could not complete review: " \o raised[1].message
    /\ tmp_file' = <<>>
    /\ pc' = "responded"
    /\ UNCHANGED <<request, original_filename, section, contract_text, llm_outcome,
                   llm_calls, evaluation, report, drive_link, telegram_calls, raised,
                   results, stages>>
    /\ UNCHANGED configVars
    /\ UNCHANGED offlineVars

\* a pasted text comes alone, with a readable upload or with an unsupported one
FormPairs ==
    {p \in FormTexts \X FormFiles :
        use_text(p[1]) => p[2] = <<>> \/ p[2][1].filename \in {<<"l", ".", "T", "X", "T">>,
                                                              <<"d", ".", "x", "l", "s", "x">>}}

Next ==
    \/ \E checklist_section \in SectionIds, form \in FormPairs, write_ok \in BOOLEAN :
          PostReview(checklist_section, form[1], form[2], write_ok)
    \/ Lookup
    \/ Extract
    \/ ReviewStart
    \/ \E outcome \in LLMOutcomes : LLMRespond(outcome)
    \/ Render
    \/ UploadReport
    \/ AttachLink
    \/ \E outcome \in TelegramOutcomes : Notify(outcome)
    \/ RespondOk
    \/ RespondError

Spec == Init /\ [][Next]_vars

\* the outcomes of the outbound LLM call of the fair specification: no
\* connection, a timeout, an error status, a response without JSON and a
\* response with one valid item
LiveLLMOutcomes ==
    {HttpOutcome("connect_error", 0, "", <<>>), HttpOutcome("timeout", 0, "", <<>>),
     HttpOutcome("response", 500, "", <<>>), HttpOutcome("response", 200, "not_json", <<>>),
     HttpOutcome("response", 200, "content",
                 <<JsonLine(JsonDoc("obj", "Looks fine.", "list",
                                    <<LLMItem("obj", "rent_review_clause", "Rent review",
                                              Missing, "No clause.", "company")>>))>>)}

NextLive ==
    \/ \E checklist_section \in SectionIds, form \in FormPairs, write_ok \in BOOLEAN :
          PostReview(checklist_section, form[1], form[2], write_ok)
    \/ Lookup
    \/ Extract
    \/ ReviewStart
    \/ \E outcome \in LiveLLMOutcomes : LLMRespond(outcome)
    \/ Render
    \/ UploadReport
    \/ AttachLink
    \/ \E outcome \in TelegramOutcomes : Notify(outcome)
    \/ RespondOk
    \/ RespondError

\* the event loop runs every step of the handler that can be taken, and an
\* outbound call returns or fails within its timeout (90 s and 30 s)
SpecLive == Init /\ [][NextLive]_vars /\ WF_vars(NextLive)

TypeOK ==
    /\ pc \in {"idle", "lookup", "extract", "review", "llm_wait", "render", "upload",
               "attach", "notify", "return", "except", "responded"}
    /\ Len(stages) <= 7
    /\ status_code \in {0, 200, 400, 500}

(***************************************************************************)
(* Evaluator specification: HeuristicFallbackEngine.evaluate on every      *)
(* section and text within the bounds                                      *)
(***************************************************************************)
FbKeys == {"rent_review_clause", "notice", "parties_identified"}
FbAlphabet == {"c", "p", "i", "I", " "}

\* the description the catalog gives a key; none for rent_review_clause
FbDescription(key) == IF key = "rent_review_clause" THEN NoneStr ELSE "About " \o key

FbRequirements ==
    {[i \in 1..Len(keys) |-> <<keys[i], FbDescription(keys[i])>>] :
        keys \in {k \in BoundedSeq(FbKeys, MaxReqs) : IsDict([i \in 1..Len(k) |-> <<k[i], "">>])}}

FbSections == {Section("S", legal, company) : legal \in FbRequirements, company \in FbRequirements}
FbTexts == BoundedSeq(FbAlphabet, MaxTextLen)
FbReasons == {"missing_api_key", "API error: 500"}

InitEval ==
    /\ settings = [openrouter_api_key |-> NoneStr, telegram_bot_token |-> NoneStr,
                   telegram_boss_chat_id |-> NoneStr]
    /\ sections = Catalog
    /\ disk = {}
    /\ PipelineIdle
    /\ UnitIdle
    /\ ConcIdle
    /\ fb_section \in FbSections
    /\ fb_text \in FbTexts
    /\ fb_reason \in FbReasons
    /\ fb_result = <<>>

\* self._fallback_engine.evaluate(contract_text=..., section=..., reason=...)
FallbackEvaluate ==
    /\ fb_result = <<>>
    /\ fb_result' = <<evaluate(fb_text, fb_section, fb_reason)>>
    /\ UNCHANGED <<fb_section, fb_text, fb_reason>>
    /\ UNCHANGED <<configVars, pipelineVars, unitVars, concVars>>

NextEval == FallbackEvaluate

SpecEval == InitEval /\ [][NextEval]_vars

(***************************************************************************)
(* Properties                                                              *)
(***************************************************************************)
ReviewEnded == "evaluate" \in Range(stages) /\ pc # "llm_wait"

IsChecklistEvaluation(e) ==
    /\ e.summary \notin {NoneStr, Absent, JNull, JInt}
    /\ \A i \in 1..Len(e.items) :
          ChecklistEvaluationItemValid(e.items[i].key, e.items[i].description,
                                       e.items[i].status, e.items[i].notes,
                                       e.items[i].category)

RaisedFrom(origins) == raised # <<>> /\ raised[1].origin \in origins

\* C1: ContractReviewAgent.review never raises: whatever the credential,
\* the section, the text and the outcome of the outbound call, once review
\* has ended it has returned a ChecklistEvaluation and no exception.
C1_ReviewNeverRaises ==
    ReviewEnded =>
        /\ ~RaisedFrom({"evaluate"})
        /\ evaluation # <<>>
        /\ IsChecklistEvaluation(evaluation[1])

\* review has ended after a 2xx response whose content was a JSON object
\* with a non-iterable items member
C1_Witness ==
    /\ ReviewEnded
    /\ llm_outcome # <<>>
    /\ llm_outcome[1].body = "content"
    /\ llm_outcome[1].content = <<JsonLine(JsonDoc("obj", "Looks fine.", "num", <<>>))>>
    /\ evaluation # <<>>

\* C2: TelegramNotifier.notify_review_complete never raises: for every
\* evaluation and credential configuration the notify stage ends with a
\* TelegramDispatchResult, and a result that is not sent carries an error.
C2_NotifyNeverRaises ==
    "notify" \in Range(stages) =>
        /\ ~RaisedFrom({"notify"})
        /\ results # <<>>
        /\ (~results[1].telegram_result.sent => results[1].telegram_result.error # NoneStr)

\* C3: only the lookup failure and the ingestion failures escape
\* review_contract; once lookup and extraction have succeeded it returns
\* the four results.
C3_OnlyLookupAndExtractEscape ==
    /\ raised # <<>> => RaisedFrom({"lookup", "extract"})
    /\ (pc = "responded" /\ contract_text # <<>>) => results # <<>>

\* C4: POST /review answers 400 with the error's own message for
\* UnsupportedFileTypeError and EmptyDocumentError, 500 with a 'Could not
\* complete review' message for every other exception of the review, and
\* 200 for a completed review; every exception of the review is answered.
C4_StatusMapping ==
    /\ pc = "except" => ENABLED RespondError
    /\ (pc = "responded" /\ stages # <<>>) =>
          /\ (raised # <<>> /\ raised[1].type \in {UnsupportedFileTypeError, EmptyDocumentError})
                => (status_code = 400 /\ response_error = raised[1].message)
          /\ (raised # <<>> /\ raised[1].type \notin {UnsupportedFileTypeError, EmptyDocumentError})
                => (/\ status_code = 500
                    /\ response_error = "Could not complete review: " \o raised[1].message)
          /\ raised = <<>> => (status_code = 200 /\ results # <<>>)

\* the unknown-section KeyError has been answered
C4_Witness ==
    /\ pc = "responded"
    /\ RaisedFrom({"lookup"})
    /\ raised[1].type = "KeyError"
    /\ status_code = 500

StageOrder == <<"lookup", "extract", "evaluate", "render", "upload", "attach", "notify">>

NothingAfterExtract ==
    /\ llm_calls = 0
    /\ llm_outcome = <<>>
    /\ evaluation = <<>>
    /\ report = <<>>
    /\ drive_link = <<>>
    /\ telegram_calls = 0
    /\ results = <<>>

\* C5: review_contract runs lookup, extract, evaluate, render, upload,
\* attach link, notify in this order, each stage after the previous one
\* succeeded; an unknown section id stops it before extraction and a failed
\* extraction stops it before the LLM call.
C5_StageOrder ==
    /\ stages = SubSeq(StageOrder, 1, Len(stages))
    /\ "extract" \in Range(stages) => section # <<>> /\ section[1].id = request.checklist_section
    /\ "evaluate" \in Range(stages) => contract_text # <<>>
    /\ "render" \in Range(stages) => evaluation # <<>>
    /\ "upload" \in Range(stages) => report # <<>>
    /\ "attach" \in Range(stages) => drive_link # <<>>
    /\ "notify" \in Range(stages) => report[1].drive_link # <<>>
    /\ ~HasKey(sections, request.checklist_section) =>
          /\ Len(stages) <= 1
          /\ contract_text = <<>>
          /\ NothingAfterExtract
    /\ RaisedFrom({"extract"}) =>
          /\ stages = <<"lookup", "extract">>
          /\ NothingAfterExtract

\* the request with an unknown section id has been answered after the
\* lookup stage alone
C5_Witness ==
    /\ pc = "responded"
    /\ ~HasKey(sections, request.checklist_section)
    /\ stages = <<"lookup">>

\* the outbound LLM call was made and the primary path produced the evaluation
PrimaryOk == llm_outcome # <<>> /\ llm_call(llm_outcome[1], section[1]).ok

NoRequirements(sec) == sec.legal_requirements = <<>> /\ sec.company_requirements = <<>>

\* C6 as claimed: every evaluation review returns has a non-empty items
\* list, for every section the store holds, on both paths.
C6_ItemsNonEmpty ==
    evaluation # <<>> => evaluation[1].items # <<>>

\* C6 as amended: an evaluation review returns has an empty items list
\* exactly when it is the fallback evaluation of a section whose two
\* requirement maps are both empty; every other evaluation is non-empty.
C6_ItemsNonEmptyUnlessNoRequirements ==
    evaluation # <<>> =>
        (evaluation[1].items = <<>> <=> (~PrimaryOk /\ NoRequirements(section[1])))

\* the fallback evaluation of a section with requirements, after an LLM
\* response with an empty items list
C6_Witness ==
    /\ evaluation # <<>>
    /\ llm_outcome # <<>>
    /\ llm_outcome[1].content = <<JsonLine(JsonDoc("obj", "Looks fine.", "list", <<>>))>>
    /\ ~NoRequirements(section[1])
    /\ evaluation[1].items # <<>>

\* the LLM call succeeded and its content is a JSON object whose items
\* list is empty or holds only items that fail validation
EmptyOrInvalidItems ==
    /\ llm_outcome # <<>>
    /\ llm_outcome[1].kind = "response"
    /\ llm_outcome[1].status_code = 200
    /\ llm_outcome[1].body = "content"
    /\ \E d \in ListDocs :
          /\ llm_outcome[1].content \in
                {<<JsonLine(d)>>, <<FenceLine("json"), JsonLine(d), FenceLine("")>>}
          /\ \A i \in 1..Len(d.items) : d.items[i] \in InvalidItemValues

\* C7: when the LLM content parses to a JSON object whose items list is
\* empty or whose items all fail validation, review returns the fallback
\* evaluation of the same text and section.
C7_EmptyItemsFallBack ==
    (EmptyOrInvalidItems /\ ReviewEnded) =>
        /\ evaluation # <<>>
        /\ evaluation[1] = evaluate(contract_text, section[1], NoItemsMessage)

\* review has ended after a response whose only item has an unknown status
C7_Witness ==
    /\ EmptyOrInvalidItems
    /\ ReviewEnded
    /\ Len(llm_outcome[1].content) = 1
    /\ Len(llm_outcome[1].content[1].doc.items) = 1
    /\ llm_outcome[1].content[1].doc.items[1].status = "unknown"
    /\ evaluation # <<>>

\* C8: with no LLM credential (None or the empty string) review makes no
\* outbound call and returns the fallback evaluation: the fixed summary,
\* and the note 'Fallback (missing_api_key)' on every item not satisfied.
C8_NoCredentialNoCall ==
    settings.openrouter_api_key \in {NoneStr, ""} =>
        /\ llm_calls = 0
        /\ llm_outcome = <<>>
        /\ pc # "llm_wait"
        /\ ReviewEnded =>
              /\ evaluation # <<>>
              /\ evaluation[1] = evaluate(contract_text, section[1], "missing_api_key")
              /\ evaluation[1].summary = FallbackSummary
              /\ \A i \in 1..Len(evaluation[1].items) :
                    evaluation[1].items[i].status # Satisfied
                        => evaluation[1].items[i].notes = "Fallback (missing_api_key)"

\* review has ended with the credential set to the empty string and an
\* item that is not satisfied
C8_Witness ==
    /\ settings.openrouter_api_key = ""
    /\ ReviewEnded
    /\ evaluation # <<>>
    /\ \E i \in 1..Len(evaluation[1].items) : evaluation[1].items[i].status = Partial

\* the reason the notes record for a failed outbound call
FailureReason(outcome) ==
    IF outcome.kind = "connect_error" THEN "All connection attempts failed"
    ELSE IF outcome.kind = "timeout" THEN "ReadTimeout"
    ELSE IF outcome.status_code \div 100 # 2
    THEN "API error: " \o ToString(outcome.status_code)
    ELSE safe_json_loads(outcome.content).exc

\* a non-2xx response, a transport error or timeout, or content that is not JSON
PrimaryFailure(outcome) ==
    \/ outcome.kind \in {"connect_error", "timeout"}
    \/ outcome.kind = "response" /\ outcome.status_code \div 100 # 2
    \/ /\ outcome.kind = "response"
       /\ outcome.status_code = 200
       /\ outcome.body = "content"
       /\ \A i \in 1..Len(outcome.content) : outcome.content[i].kind # "json"

WithoutNotes(e) ==
    [summary |-> e.summary,
     items |-> [i \in 1..Len(e.items) |-> [e.items[i] EXCEPT !.notes = ""]]]

\* C9: with a credential configured, a non-2xx response, a transport error
\* or timeout, and content that is not JSON each make review return the
\* fallback evaluation of the same text and section, with the failure as
\* the reason in the notes and nothing else different; the call is made
\* once.
C9_FailureFallsBack ==
    /\ llm_calls <= 1
    /\ (llm_outcome # <<>> /\ PrimaryFailure(llm_outcome[1])) =>
          /\ llm_calls = 1
          /\ evaluation # <<>>
          /\ evaluation[1] = evaluate(contract_text, section[1], FailureReason(llm_outcome[1]))
          /\ WithoutNotes(evaluation[1])
                = WithoutNotes(evaluate(contract_text, section[1], "missing_api_key"))

\* review has ended after a 500 response, with an item that is not satisfied
C9_Witness ==
    /\ llm_outcome # <<>>
    /\ llm_outcome[1].kind = "response"
    /\ llm_outcome[1].status_code = 500
    /\ evaluation # <<>>
    /\ \E i \in 1..Len(evaluation[1].items) :
          evaluation[1].items[i].notes = "Fallback (API error: 500)"

KeysOf(requirements) == Range(DictKeys(requirements))

\* C10 as claimed: the fallback evaluation has exactly one item per key of
\* legal_requirements union company_requirements, also for a key of both
\* maps; an item's category is the map of its key; no item is missing.
C10_OneItemPerKey ==
    fb_result # <<>> =>
        LET items == fb_result[1].items
            legal == KeysOf(fb_section.legal_requirements)
            company == KeysOf(fb_section.company_requirements)
        IN  /\ \A k \in legal \cup company :
                  Cardinality({i \in 1..Len(items) : items[i].key = k}) = 1
            /\ \A i \in 1..Len(items) :
                  /\ items[i].key \in legal \cup company
                  /\ items[i].category = "legal" => items[i].key \in legal
                  /\ items[i].category = "company" => items[i].key \in company
                  /\ items[i].status # Missing

\* C10 as amended: the fallback evaluation has exactly one item per entry
\* of each map, the legal entries first and then the company entries, each
\* in map order and tagged with its map, so that a key of both maps has
\* two items; no item is missing.
C10_OneItemPerEntry ==
    fb_result # <<>> =>
        LET items == fb_result[1].items
            legal == fb_section.legal_requirements
            company == fb_section.company_requirements
        IN  /\ Len(items) = Len(legal) + Len(company)
            /\ \A i \in 1..Len(legal) :
                  items[i].key = legal[i][1] /\ items[i].category = "legal"
            /\ \A j \in 1..Len(company) :
                  /\ items[Len(legal) + j].key = company[j][1]
                  /\ items[Len(legal) + j].category = "company"
            /\ \A i \in 1..Len(items) : items[i].status \in {Satisfied, Partial}

\* the fallback evaluation of a section whose two maps share a key
C10_Witness ==
    /\ fb_result # <<>>
    /\ KeysOf(fb_section.legal_requirements) \cap KeysOf(fb_section.company_requirements) # {}
    /\ Len(fb_result[1].items) = 2

\* C13: on every exit path of a POST /review request that created a
\* temporary file, a failure while the content is written into it included,
\* the temporary file has been removed when the request ends.
C13_TempFileRemoved == pc = "responded" => tmp_file = <<>>

\* the bot token or the chat id is None or empty
NotifierUnconfigured ==
    \/ settings.telegram_bot_token \in {NoneStr, ""}
    \/ settings.telegram_boss_chat_id \in {NoneStr, ""}

\* C14: when the bot token or the chat id is missing or empty,
\* notify_review_complete makes no outbound call and returns sent = false,
\* a null message_id and a non-null error, without raising.
C14_UnconfiguredNotifierSkips ==
    ("notify" \in Range(stages) /\ NotifierUnconfigured) =>
        /\ telegram_calls = 0
        /\ ~RaisedFrom({"notify"})
        /\ results # <<>>
        /\ results[1].telegram_result.sent = FALSE
        /\ results[1].telegram_result.message_id = NoneStr
        /\ results[1].telegram_result.error # NoneStr

\* the notifier has returned with the token set and the chat id empty
C14_Witness ==
    /\ "notify" \in Range(stages)
    /\ settings.telegram_bot_token = "bot-token"
    /\ settings.telegram_boss_chat_id = ""
    /\ results # <<>>
    /\ ~results[1].telegram_result.sent

\* the artifact's drive_link in every state of one review
C15_LinkState ==
    /\ (report # <<>> /\ "upload" \notin Range(stages)) => report[1].drive_link = <<>>
    /\ (report # <<>> /\ report[1].drive_link # <<>>) =>
          drive_link # <<>> /\ report[1].drive_link = drive_link
    /\ "attach" \in Range(stages) => report[1].drive_link # <<>>
    /\ results # <<>> => results[1].report.drive_link = <<results[1].drive_link>>

\* the artifact's fields from one state to the next
C15_LinkStep ==
    report # <<>> =>
        /\ report' # <<>>
        /\ [report'[1] EXCEPT !.drive_link = <<>>] = [report[1] EXCEPT !.drive_link = <<>>]
        /\ report[1].drive_link # <<>> => report'[1].drive_link = report[1].drive_link

\* C15: within one review the artifact's drive_link is null from creation
\* until the upload step has returned, is then assigned exactly once, and in
\* the returned results report.drive_link equals the drive link returned as
\* third result; no other field of the artifact changes after creation.
C15_DriveLinkAssignedOnce == [](C15_LinkState) /\ [][C15_LinkStep]_vars

\* the four results have been returned with the link attached
C15_Witness ==
    /\ results # <<>>
    /\ results[1].report.drive_link # <<>>
    /\ results[1].report.drive_link = <<results[1].drive_link>>

\* the ids of the sections of the catalog file
RpFileIds == {rp_raw[i].id : i \in 1..Len(rp_raw)}

\* the section of the catalog file that the repository keeps for an id
RpKept(id) ==
    rp_raw[CHOOSE i \in 1..Len(rp_raw) :
              /\ rp_raw[i].id = id
              /\ \A j \in (i + 1)..Len(rp_raw) : rp_raw[j].id # id]

\* C16: ChecklistRepository.get(id) returns the loaded section with that
\* id when there is one and otherwise fails with a KeyError naming the id;
\* list_sections returns every loaded section, one for each distinct id.
C16_GetAndListSections ==
    rp_got # <<>> =>
        /\ IF rp_id \in RpFileIds
           THEN /\ rp_got[1].ok
                /\ rp_got[1].val = <<RpKept(rp_id)>>
                /\ rp_got[1].val[1].id = rp_id
           ELSE /\ ~rp_got[1].ok
                /\ rp_got[1].exc = "KeyError"
                /\ rp_got[1].message = "Checklist section '" \o rp_id \o "' not found"
        /\ {rp_listed[i].id : i \in 1..Len(rp_listed)} = RpFileIds
        /\ \A i, j \in 1..Len(rp_listed) : rp_listed[i].id = rp_listed[j].id => i = j
        /\ \A i \in 1..Len(rp_listed) : rp_listed[i] = RpKept(rp_listed[i].id)

\* a file with two sections of one id has been loaded and that id looked up
C16_Witness ==
    /\ rp_got # <<>>
    /\ rp_got[1].ok
    /\ Len(rp_raw) = 3
    /\ Len(rp_listed) = 2
    /\ \E i, j \in 1..Len(rp_raw) : i # j /\ rp_raw[i].id = rp_id /\ rp_raw[j].id = rp_id

\* C18: a POST /review request with a checklist id but neither an uploaded
\* file nor a pasted text is rejected with status 422 and starts no review.
C18_MissingContractIs422 ==
    (/\ pc = "responded"
     /\ ~use_text(request.contract_text)
     /\ ~use_file(request.contract_file))
        => status_code = 422 /\ stages = <<>> /\ tmp_file = <<>>

\* C19: after generate has returned, the artifact's local_path ends in .md
\* and names an existing file whose content is the rendered markdown.
C19_ReportFileExists ==
    report # <<>> =>
        /\ report[1].local_path.suffix = ".md"
        /\ \E f \in disk :
              /\ f.path = report[1].local_path
              /\ f.content = build_markdown(report[1].contract_title, section[1],
                                            report[1].evaluation)

\* the number of items of an evaluation that have a status
ItemsWithStatus(e, status) ==
    Cardinality({i \in 1..Len(e.items) : e.items[i].status = status})

\* C20: for every evaluation the three values of status_counts sum to the
\* number of items, and each value is the number of items with that status.
C20_StatusCountsSum ==
    evaluation # <<>> =>
        LET counts == status_counts(evaluation[1])
        IN  /\ DictKeys(counts) = <<Satisfied, Partial, Missing>>
            /\ counts[1][2] + counts[2][2] + counts[3][2] = Len(evaluation[1].items)
            /\ \A i \in 1..3 : counts[i][2] = ItemsWithStatus(evaluation[1], counts[i][1])

\* the report of an evaluation with items of two statuses has been rendered
C20_Witness ==
    /\ report # <<>>
    /\ evaluation # <<>>
    /\ Len(evaluation[1].items) >= 2
    /\ ItemsWithStatus(evaluation[1], Partial) >= 1
    /\ ItemsWithStatus(evaluation[1], Satisfied) >= 1

\* C29: a request that reaches the review with an unknown checklist id and
\* a document that ingestion rejects (unsupported suffix or blank content)
\* is answered 500 with the not-found KeyError of the lookup; the document
\* is never extracted and the 400 of the ingestion failure is never given.
UploadedDocument ==
    [name |-> <<"t", "m", "p">>, content |-> request.contract_file[1].content,
     readable |-> request.contract_file[1].readable]

IngestionWouldFail ==
    /\ ~use_text(request.contract_text)
    /\ use_file(request.contract_file)
    /\ LET e == extract_text(UploadedDocument, request.contract_file[1].filename)
       IN  ~e.ok /\ e.exc \in {UnsupportedFileTypeError, EmptyDocumentError}

C29_LookupFailureReported ==
    (/\ pc = "responded"
     /\ stages # <<>>
     /\ ~HasKey(sections, request.checklist_section)
     /\ IngestionWouldFail)
    => /\ status_code = 500
       /\ raised = <<Exception("KeyError", not_found_message(request.checklist_section),
                               "lookup")>>
       /\ stages = <<"lookup">>
       /\ results = <<>>

C29_Witness ==
    /\ pc = "responded"
    /\ request.checklist_section = "INVALID_SECTION"
    /\ IngestionWouldFail
    /\ request.contract_file[1].filename = <<"d", ".", "x", "l", "s", "x">>
    /\ status_code = 500
    /\ raised # <<>>
    /\ raised[1].type = "KeyError"

\* C30: a request with non-blank pasted text is reviewed on that text alone,
\* as the document sample_contract.txt, and its upload is never read; the
\* upload is read exactly when the text is absent or blank and a named file
\* came with the request; with neither, the request is answered 400 and no
\* temporary file is ever created.
PastedNonBlank ==
    /\ request.contract_text # <<>>
    /\ \E i \in 1..Len(request.contract_text[1]) :
          request.contract_text[1][i] \notin Whitespace

NamedUpload == request.contract_file # <<>> /\ request.contract_file[1].filename # <<>>

C30_TextBeforeUpload ==
    pc # "idle" =>
      /\ PastedNonBlank =>
            /\ ~request.upload_read
            /\ original_filename \in {<<>>, SampleContractTxt}
            /\ tmp_file # <<>> /\ pc # "responded" =>
                  /\ tmp_file[1].content = request.contract_text[1]
                  /\ original_filename = SampleContractTxt
            /\ "evaluate" \in Range(stages) =>
                  contract_text = strip(request.contract_text[1])
      /\ request.upload_read <=> (~PastedNonBlank /\ NamedUpload)
      /\ (request.upload_read /\ pc # "responded") =>
            /\ tmp_file # <<>>
            /\ tmp_file[1].content = request.contract_file[1].content
            /\ original_filename = request.contract_file[1].filename
      /\ (~PastedNonBlank /\ ~NamedUpload) =>
            /\ pc = "responded"
            /\ status_code = 400
            /\ tmp_file = <<>>
            /\ stages = <<>>

C30_Witness ==
    /\ pc = "responded"
    /\ status_code = 200
    /\ results # <<>>
    /\ PastedNonBlank
    /\ NamedUpload
    /\ ~request.upload_read
    /\ original_filename = SampleContractTxt

(***************************************************************************)
(* Unit specification: one call of one function on inputs within bounds    *)
(***************************************************************************)
ExStems == {<<>>, <<"a">>, <<"a", ".", "t", "x", "t">>}
ExSuffixes ==
    {<<>>, <<".", "t", "x", "t">>, <<".", "T", "X", "T">>, <<".", "P", "d", "f">>,
     <<".", "d", "o", "c", "x">>, <<".", "d", "o", "c">>, <<".", "x", "l", "s", "x">>,
     <<".", "t", "x", "t", " ">>, <<"t", "x", "t">>, <<".", "p", "d", "f", ".", "b">>}
ExNames == {st \o suffix : st \in ExStems, suffix \in ExSuffixes}
ExPathNames == {<<"t", "m", "p">>, <<"f", ".", "t", "x", "t">>, <<"f", ".", "P", "D", "F">>}
ExAlphabet == {" ", "\n", "a"}
ExContents == BoundedSeq(ExAlphabet, MaxTextLen)

InitUnit ==
    /\ settings = [openrouter_api_key |-> NoneStr, telegram_bot_token |-> NoneStr,
                   telegram_boss_chat_id |-> NoneStr]
    /\ sections = Catalog
    /\ disk = {}
    /\ PipelineIdle
    /\ FallbackIdle
    /\ UnitIdle
    /\ ConcIdle

UnitFresh == ex_result = <<>> /\ rp_got = <<>> /\ ti_result = <<>> /\ sl_result = <<>>

\* extract_text(file_path, original_filename)
ExtractText ==
    /\ UnitFresh
    /\ \E path_name \in ExPathNames, content \in ExContents, readable \in BOOLEAN,
          declared \in ExNames :
          /\ ex_file' = [name |-> path_name, content |-> content, readable |-> readable]
          /\ ex_filename' = declared
          /\ ex_result' = <<extract_text(ex_file', declared)>>
    /\ UNCHANGED <<rpVars, tiVars, slVars>>
    /\ UNCHANGED <<configVars, pipelineVars, fbVars, concVars>>

\* the sections of a catalog file: two with the same id, and two more
RpPool ==
    {[id |-> "A", jurisdiction |-> "Queensland", contract_type |-> "Commercial Lease",
      version |-> "1.0", legal_requirements |-> <<>>, company_requirements |-> <<>>],
     [id |-> "A", jurisdiction |-> "Queensland", contract_type |-> "Commercial Lease",
      version |-> "2.0", legal_requirements |-> << <<"notice", "Give notice.">> >>,
      company_requirements |-> <<>>],
     [id |-> "B", jurisdiction |-> "Queensland", contract_type |-> "Commercial Lease",
      version |-> "1.0", legal_requirements |-> <<>>, company_requirements |-> <<>>],
     [id |-> "", jurisdiction |-> "Victoria", contract_type |-> "Retail Lease",
      version |-> "1.0", legal_requirements |-> <<>>, company_requirements |-> <<>>]}
RpFiles == BoundedSeq(RpPool, MaxSections)
RpIds == {"A", "B", "", "INVALID_SECTION"}

\* ChecklistRepository(path), then list_sections() and get(section_id)
RepoLookup ==
    /\ UnitFresh
    /\ \E raw_sections \in RpFiles, section_id \in RpIds :
          /\ rp_raw' = raw_sections
          /\ rp_id' = section_id
          /\ LET loaded == load_sections(raw_sections)
                 r == repo_get(loaded, section_id)
             IN  /\ rp_listed' = list_sections(loaded)
                 /\ rp_got' = << [ok |-> r.ok, val |-> r.val, exc |-> r.exc,
                                  message |-> IF r.ok THEN ""
                                              ELSE not_found_message(section_id)] >>
    /\ UNCHANGED <<exVars, tiVars, slVars>>
    /\ UNCHANGED <<configVars, pipelineVars, fbVars, concVars>>

\* the items of an evaluation: three keys, the three statuses, and two
\* items that differ in their notes only
TiItem(key, status, notes) ==
    [key |-> key, description |-> "Requirement", status |-> status, notes |-> notes,
     category |-> "legal"]
TiKeys == {<<"a">>, <<"a", "b">>, <<"B">>}
TiPool ==
    {TiItem(key, status, "") : key \in TiKeys, status \in StatusLiteral}
        \cup {TiItem(<<"a">>, Missing, "No clause.")}
TiEvaluations == {[summary |-> "Looks fine.", items |-> items] :
                     items \in BoundedSeq(TiPool, MaxIssues)}
TiLimits == (0 - 1)..(MaxIssues + 1)

\* evaluation.top_issues(limit)
TopIssues ==
    /\ UnitFresh
    /\ \E evaluation_ \in TiEvaluations, limit \in TiLimits :
          /\ ti_items' = evaluation_.items
          /\ ti_limit' = limit
          /\ ti_result' = <<top_issues(evaluation_, limit)>>
    /\ UNCHANGED <<exVars, rpVars, slVars>>
    /\ UNCHANGED <<configVars, pipelineVars, fbVars, concVars>>

SlAlphabet == {"A", "b", "1", "-", " ", "#", DottedI}
SlValues == BoundedSeq(SlAlphabet, MaxTextLen)

\* _slugify(value)
Slugify ==
    /\ UnitFresh
    /\ \E value \in SlValues :
          /\ sl_value' = value
          /\ sl_result' = <<slugify(value)>>
    /\ UNCHANGED <<exVars, rpVars, tiVars>>
    /\ UNCHANGED <<configVars, pipelineVars, fbVars, concVars>>

NextUnit ==
    \/ Slugify
    \/ TopIssues
    \/ RepoLookup
    \/ ExtractText

SpecUnit == InitUnit /\ [][NextUnit]_vars

SupportedSuffixes ==
    {<<".", "p", "d", "f">>, <<".", "d", "o", "c", "x">>, <<".", "t", "x", "t">>}

\* the name extract_text decides the format from
ExDecidingName == IF ex_filename # <<>> THEN ex_filename ELSE ex_file.name

ExSupported == \E suffix \in SupportedSuffixes : EndsWith(lower(ExDecidingName), suffix)

\* C11: extract_text decides the format from the declared file name, or
\* from the path's name when none is declared, compared without regard to
\* case; a name that ends in none of .pdf, .docx, .txt fails with
\* UnsupportedFileTypeError whatever the content, and no other name does.
C11_UnsupportedSuffix ==
    ex_result # <<>> =>
        (~ExSupported <=> (~ex_result[1].ok /\ ex_result[1].exc = UnsupportedFileTypeError))

\* an unsupported declared name with an unreadable file
C11_Witness ==
    /\ ex_result # <<>>
    /\ ex_filename = <<"a", ".", "t", "x", "t", ".", "x", "l", "s", "x">>
    /\ ~ex_file.readable
    /\ ex_result[1].exc = UnsupportedFileTypeError

IsBlank(text) == \A i \in 1..Len(text) : text[i] \in Whitespace

\* trimmed is text without its leading and trailing whitespace
IsTrimOf(trimmed, text) ==
    /\ trimmed # <<>>
    /\ trimmed[1] \notin Whitespace
    /\ trimmed[Len(trimmed)] \notin Whitespace
    /\ \E i \in 1..Len(text) :
          /\ i + Len(trimmed) - 1 <= Len(text)
          /\ SubSeq(text, i, i + Len(trimmed) - 1) = trimmed
          /\ IsBlank(SubSeq(text, 1, i - 1))
          /\ IsBlank(SubSeq(text, i + Len(trimmed), Len(text)))

\* C12: for a supported suffix extract_text returns the extracted text
\* without its leading and trailing whitespace when that is non-empty, and
\* fails with EmptyDocumentError exactly when the extracted text is empty
\* or whitespace-only; it never returns an empty or untrimmed string.
C12_TrimmedOrEmptyError ==
    ex_result # <<>> =>
        /\ (ExSupported /\ ex_file.readable) =>
              IF IsBlank(ex_file.content)
              THEN ~ex_result[1].ok /\ ex_result[1].exc = EmptyDocumentError
              ELSE ex_result[1].ok /\ IsTrimOf(ex_result[1].val, ex_file.content)
        /\ (~ex_result[1].ok /\ ex_result[1].exc = EmptyDocumentError)
              => (ExSupported /\ ex_file.readable /\ IsBlank(ex_file.content))
        /\ ex_result[1].ok => IsTrimOf(ex_result[1].val, ex_file.content)

\* a text with whitespace on both sides has been extracted
C12_Witness ==
    /\ ex_result # <<>>
    /\ ex_file.content = <<" ", "a", "\n">>
    /\ ex_result[1].ok
    /\ ex_result[1].val = <<"a">>

\* x may stand before y: missing before partial before satisfied, and for
\* one status the smaller key first
TiMayPrecede(x, y) ==
    \/ x.status = Missing /\ y.status # Missing
    \/ x.status = Partial /\ y.status = Satisfied
    \/ x.status = y.status /\ ~str_less(y.key, x.key)

\* the orders in which the items of ti_items are sorted
TiSortings ==
    {p \in [1..Len(ti_items) -> 1..Len(ti_items)] :
        /\ \A i, j \in 1..Len(ti_items) : p[i] = p[j] => i = j
        /\ \A i, j \in 1..Len(ti_items) : i < j => TiMayPrecede(ti_items[p[i]], ti_items[p[j]])}

C22_SlugifyFixedPoint ==
    sl_result # <<>> =>
        LET result == sl_result[1]
        IN  /\ result # <<>>
            /\ result[1] # "-" /\ result[Len(result)] # "-"
            /\ \A i \in 1..(Len(result) - 1) : ~(result[i] = "-" /\ result[i + 1] = "-")
            /\ slugify(result) = result
            /\ (\A i \in 1..Len(sl_value) : ~isalnum(sl_value[i]))
                  => result = <<"c", "o", "n", "t", "r", "a", "c", "t">>

\* the message is a JSON object between an opening fence line, with or
\* without a language tag, and a closing fence line
IsFenced(message) ==
    LET cleaned == StripLines(message)
    IN  /\ Len(cleaned) = 3
        /\ cleaned[1].kind = "fence"
        /\ cleaned[2].kind = "json" /\ cleaned[2].doc.shape = "obj"
        /\ cleaned[3].kind = "fence" /\ cleaned[3].tag = ""

\* the JSON object of a fenced message, without the fence
Unwrapped(message) == <<StripLines(message)[2]>>

\* C24: parsing LLM content that is a JSON object wrapped in a code fence
\* gives the same evaluation as parsing the unwrapped JSON object: the same
\* summary and the same items.
C24_FencedSameAsUnwrapped ==
    (/\ llm_outcome # <<>>
     /\ evaluation # <<>>
     /\ llm_outcome[1].body = "content"
     /\ IsFenced(llm_outcome[1].content)) =>
        LET bare == [llm_outcome[1] EXCEPT !.content = Unwrapped(llm_outcome[1].content)]
            expected == review_after_call(contract_text, section[1], bare).val
        IN  /\ evaluation[1].summary = expected.summary
            /\ evaluation[1].items = expected.items

\* a fenced object with a language tag and one valid item has been parsed
C24_Witness ==
    /\ llm_outcome # <<>>
    /\ evaluation # <<>>
    /\ llm_outcome[1].body = "content"
    /\ IsFenced(llm_outcome[1].content)
    /\ llm_outcome[1].content[1].tag = "json"
    /\ evaluation[1].summary = "Looks fine."
    /\ Len(evaluation[1].items) = 1
    /\ evaluation[1].items[1].notes = "No clause."

\* the outbound call returned content that parses to a JSON object with an
\* items list
ParsedObject ==
    /\ llm_outcome # <<>>
    /\ evaluation # <<>>
    /\ llm_outcome[1].kind = "response"
    /\ llm_outcome[1].status_code = 200
    /\ llm_outcome[1].body = "content"
    /\ safe_json_loads(llm_outcome[1].content).ok
    /\ safe_json_loads(llm_outcome[1].content).val.shape = "obj"
    /\ safe_json_loads(llm_outcome[1].content).val.items_shape = "list"

\* the object review parsed
ParsedDoc == safe_json_loads(llm_outcome[1].content).val

\* C25: when the LLM content parses to a JSON object whose items list has
\* at least one item that passes validation, review returns the primary
\* evaluation: its items are the valid items in their order, its summary is
\* the parsed summary, or 'Review completed.' when the response supplies no
\* usable summary.
C25_ValidItemsGivePrimary ==
    (/\ ParsedObject
     /\ \E i \in 1..Len(ParsedDoc.items) : parse_item(ParsedDoc.items[i], section[1]) # <<>>)
        => /\ evaluation[1].items = parse_items(ParsedDoc.items, section[1])
           /\ evaluation[1].summary = IF ParsedDoc.summary \in {Absent, JNull, JInt}
                                       THEN "Review completed."
                                       ELSE ParsedDoc.summary

\* C26: every item of every evaluation review returns has a key that is a
\* key of the section's legal_requirements or company_requirements, on the
\* primary path as well as on the fallback path.
C26_ItemKeysInSection ==
    evaluation # <<>> =>
        \A i \in 1..Len(evaluation[1].items) :
            \/ HasKey(section[1].legal_requirements, evaluation[1].items[i].key)
            \/ HasKey(section[1].company_requirements, evaluation[1].items[i].key)

\* the items of the evaluation that have the status missing, in item order
MissingItems(e) == SelectSeq(e.items, LAMBDA item : item.status = Missing)

\* C27: with the notification credentials configured, the message that
\* notify_review_complete sends starts with the fixed lead-in, has a
\* critical-issues block exactly when an item is missing, naming the first
\* missing item only, and ends with the line 'N clauses compliant, M need
\* review', N the satisfied items and M the partial and missing ones.
C27_NotificationMessage ==
    (/\ "notify" \in Range(stages)
     /\ settings.telegram_bot_token \notin {NoneStr, ""}
     /\ settings.telegram_boss_chat_id \notin {NoneStr, ""}) =>
        LET message_body == build_review_notification(evaluation[1])
            parts == message_body.val
            missing == MissingItems(evaluation[1])
        IN  /\ message_body.ok
            /\ telegram_calls = 1
            /\ parts[1] = "Boss, there is a new contract review."
            /\ IF missing # <<>>
               THEN /\ Len(parts) = 4
                    /\ parts[2] = "Critical issues found:"
                    /\ parts[3] = missing[1].description
               ELSE Len(parts) = 2
            /\ parts[Len(parts)] =
                  ToString(ItemsWithStatus(evaluation[1], Satisfied)) \o " clauses compliant, "
                  \o ToString(ItemsWithStatus(evaluation[1], Partial)
                              + ItemsWithStatus(evaluation[1], Missing)) \o " need review"

\* C28: every started review ends: a POST /review request always reaches
\* its response, makes at most one LLM call and at most one notification
\* call, and takes no step after it has responded.
C28_ReviewTerminates ==
    /\ [](llm_calls <= 1 /\ telegram_calls <= 1)
    /\ (pc # "idle") ~> (pc = "responded")
    /\ [][pc # "responded"]_vars

\* a review that made its LLM call has been answered
C28_Witness ==
    /\ pc = "responded"
    /\ llm_calls = 1
    /\ results # <<>>
    /\ status_code = 200

\* the lowercased text holds one of the keywords the table gives the key
KeywordFound(key, text) ==
    /\ HasKey(positive_keywords, key)
    /\ \E i \in 1..Len(DictGet(positive_keywords, key, <<>>)) :
          IsSubstring(DictGet(positive_keywords, key, <<>>)[i], lower(text))

\* C23: in the fallback evaluation an item is satisfied exactly when its
\* key has an entry in the keyword table and the lowercased contract text
\* contains one of that key's keywords, and partial otherwise; a satisfied
\* item's note is 'Heuristic evaluation', a partial item's note carries the
\* fallback reason.
C23_FallbackStatusRule ==
    fb_result # <<>> =>
        \A i \in 1..Len(fb_result[1].items) :
            LET item == fb_result[1].items[i]
            IN  /\ item.status = IF KeywordFound(item.key, fb_text) THEN Satisfied ELSE Partial
                /\ ~HasKey(positive_keywords, item.key) => item.status = Partial
                /\ item.notes = IF item.status = Satisfied THEN "Heuristic evaluation"
                                ELSE "Fallback (" \o fb_reason \o ")"

\* a text with a keyword in capitals, a satisfied item, a partial item whose
\* key has no table entry and a partial item whose key has one
C23_Witness ==
    /\ fb_result # <<>>
    /\ fb_text = <<"c", "p", "I">>
    /\ \E i, j, k \in 1..Len(fb_result[1].items) :
          /\ fb_result[1].items[i].key = "rent_review_clause"
          /\ fb_result[1].items[i].status = Satisfied
          /\ fb_result[1].items[j].key = "parties_identified"
          /\ fb_result[1].items[j].status = Partial
          /\ fb_result[1].items[k].key = "notice"
          /\ fb_result[1].items[k].status = Partial

\* what holds of _slugify for every input: the fixed point fails for DottedI only
SlugShape ==
    sl_result # <<>> =>
        LET result == sl_result[1]
        IN  /\ result # <<>>
            /\ result[1] # "-" /\ result[Len(result)] # "-"
            /\ \A i \in 1..(Len(result) - 1) : ~(result[i] = "-" /\ result[i + 1] = "-")
            /\ (\A i \in 1..Len(sl_value) : ~isalnum(sl_value[i]))
                  => result = <<"c", "o", "n", "t", "r", "a", "c", "t">>
            /\ DottedI \notin Range(sl_value) => slugify(result) = result

(***************************************************************************)
(* Concurrent specification: NumRequests requests of POST /review share    *)
(* the settings, the repository and the directory of temporary files.  A   *)
(* request takes a step between two file operations or outbound calls.    *)
(***************************************************************************)
Requests == 1..NumRequests
TmpPaths == 1..NumRequests

TmpName(path) == <<"t", "m", "p", ToString(path)>>

\* the paths NamedTemporaryFile picks from: one that no file has
fresh_tmp_paths_Fixed(dir) == {1}

fresh_tmp_paths(dir) == TmpPaths \ {f.path : f \in dir}

\* open(path, "w"): the file is created, or truncated
create_file(dir, path) ==
    {f \in dir : f.path # path} \cup {[path |-> path, content |-> <<>>, readable |-> TRUE]}

\* buffer.write(...) and the close at the end of the with block
write_file(dir, path, content, readable) ==
    {f \in dir : f.path # path}
        \cup {[path |-> path, content |-> content, readable |-> readable]}

\* tmp_path.unlink(missing_ok=True)
unlink(dir, path) == {f \in dir : f.path # path}

\* extract_text on a path of the directory
extract_path(dir, path, original_filename_) ==
    IF \E f \in dir : f.path = path
    THEN LET f == CHOOSE f \in dir : f.path = path
         IN  extract_text([name |-> TmpName(path), content |-> f.content,
                           readable |-> f.readable], original_filename_)
    ELSE Raised(<<>>, "FileNotFoundError")

ConcForm(checklist_section, form_text, form_file) ==
    [checklist_section |-> checklist_section, contract_text |-> form_text,
     contract_file |-> form_file]

\* a pasted text, a readable upload, an upload without text, an unknown id
ConcForms ==
    {ConcForm("QLD_COMMERCIAL_LEASE", << <<"C", "P", "I", "\n">> >>, <<>>),
     ConcForm("SHARED_KEYS", <<>>,
              <<Upload(<<"l", ".", "T", "X", "T">>,
                       <<" ", "n", "o", "t", "i", "c", "e", " ">>, TRUE)>>),
     ConcForm("QLD_COMMERCIAL_LEASE", <<>>, <<Upload(<<"s", ".", "p", "d", "f">>, <<"\n">>, TRUE)>>),
     ConcForm("INVALID_SECTION", << <<"C", "P", "I", "\n">> >>, <<>>)}

ConcLLMOutcomes ==
    {HttpOutcome("response", 500, "", <<>>),
     HttpOutcome("response", 200, "content",
                 <<JsonLine(JsonDoc("obj", "Looks fine.", "list",
                                    <<LLMItem("obj", "notice", Absent, Absent, Absent,
                                              Absent)>>))>>)}

ConcTelegramOutcomes == {TelegramOutcome("response", 200, "result", "42")}

ConcSettings ==
    {[openrouter_api_key |-> "sk-or-key", telegram_bot_token |-> NoneStr,
      telegram_boss_chat_id |-> NoneStr],
     [openrouter_api_key |-> NoneStr, telegram_bot_token |-> "bot-token",
      telegram_boss_chat_id |-> "chat-id"]}

\* what the response of one request shows
Outcome(status, error, evaluation_, contract_title, drive_link_, telegram_result) ==
    [status_code |-> status, error |-> error, evaluation |-> evaluation_,
     contract_title |-> contract_title, drive_link |-> drive_link_,
     telegram_result |-> telegram_result]

\* the context the except clauses build
error_outcome(type, message) ==
    Outcome(except_status(type),
            IF except_status(type) = 400 THEN message
            ELSE "Could not complete review: " \o message,
            <<>>, <<>>, <<>>, <<>>)

\* review_contract from the report to the four results, and the response
report_and_notify(settings_, original_filename_, section_, evaluation_, notify_outcome) ==
    LET rendered == generate(derive_contract_title(original_filename_), section_, evaluation_)
        link == upload_report(rendered.local_path)
        attached == [rendered EXCEPT !.drive_link = <<link>>]
        r == notify_review_complete(settings_, evaluation_, notify_outcome)
    IN  IF r.ok
        THEN Outcome(200, "", <<evaluation_>>, attached.contract_title, attached.drive_link,
                     <<r.val>>)
        ELSE error_outcome(r.exc, NotifierSatisfied)

IdleRequest ==
    [pc |-> "idle", form |-> <<>>, tmp_path |-> 0, original_filename |-> <<>>,
     section |-> <<>>, contract_text |-> <<>>, write_ok |-> TRUE, llm_outcome |-> <<>>,
     outcome |-> <<>>]

\* the request has returned its response
Responded(req, outcome) == [req EXCEPT !.pc = "responded", !.outcome = <<outcome>>]

InitConc ==
    /\ settings \in ConcSettings
    /\ sections = Catalog
    /\ disk = {}
    /\ PipelineIdle
    /\ FallbackIdle
    /\ UnitIdle
    /\ creqs = [r \in Requests |-> IdleRequest]
    /\ tmp_dir = {}

\* POST /review up to the creation of the temporary file
CPost(r, form) ==
    /\ creqs[r].pc = "idle"
    /\ \E path \in fresh_tmp_paths(tmp_dir) :
          /\ tmp_dir' = create_file(tmp_dir, path)
          /\ creqs' = [creqs EXCEPT ![r] =
                          [@ EXCEPT !.pc = "created", !.form = <<form>>, !.tmp_path = path,
                                    !.original_filename =
                                        IF use_text(form.contract_text)
                                        THEN SampleContractTxt
                                        ELSE form.contract_file[1].filename]]
    /\ UNCHANGED <<configVars, pipelineVars, fbVars, unitVars>>

\* buffer.write(...): the submitted content goes into the temporary file,
\* or the write raises and the error leaves the handler
CWrite(r, write_ok) ==
    /\ creqs[r].pc = "created"
    /\ LET req == creqs[r]
           form == req.form[1]
       IN  IF write_ok
           THEN /\ tmp_dir' = IF use_text(form.contract_text)
                              THEN write_file(tmp_dir, req.tmp_path, form.contract_text[1],
                                              TRUE)
                              ELSE write_file(tmp_dir, req.tmp_path,
                                              form.contract_file[1].content,
                                              form.contract_file[1].readable)
                /\ creqs' = [creqs EXCEPT ![r] = [@ EXCEPT !.pc = "written"]]
           ELSE /\ creqs' = [creqs EXCEPT ![r] =
                                Responded([req EXCEPT !.write_ok = FALSE],
                                          Outcome(500, "Internal Server Error", <<>>, <<>>,
                                                  <<>>, <<>>))]
                /\ UNCHANGED tmp_dir
    /\ UNCHANGED <<configVars, pipelineVars, fbVars, unitVars>>

\* review_contract up to the outbound LLM call, or to the response when the
\* call is not made; the finally clause removes the temporary file
CReview(r, notify_outcome) ==
    /\ creqs[r].pc = "written"
    /\ LET req == creqs[r]
           looked == repo_get(sections, req.form[1].checklist_section)
           extracted == extract_path(tmp_dir, req.tmp_path, req.original_filename)
       IN  IF ~looked.ok
           THEN /\ creqs' = [creqs EXCEPT ![r] =
                                Responded(req, error_outcome("KeyError",
                                    not_found_message(req.form[1].checklist_section)))]
                /\ tmp_dir' = unlink(tmp_dir, req.tmp_path)
           ELSE IF ~extracted.ok
           THEN /\ creqs' = [creqs EXCEPT ![r] =
                                Responded(req, error_outcome(extracted.exc,
                                                             ExtractMessage(extracted.exc)))]
                /\ tmp_dir' = unlink(tmp_dir, req.tmp_path)
           ELSE IF review_calls_llm(settings)
           THEN /\ creqs' = [creqs EXCEPT ![r] =
                                [req EXCEPT !.pc = "llm_wait", !.section = looked.val,
                                            !.contract_text = extracted.val]]
                /\ UNCHANGED tmp_dir
           ELSE /\ creqs' = [creqs EXCEPT ![r] =
                                Responded([req EXCEPT !.section = looked.val,
                                                      !.contract_text = extracted.val],
                                          report_and_notify(settings, req.original_filename,
                                              looked.val[1],
                                              review_without_key(extracted.val,
                                                                 looked.val[1]).val,
                                              notify_outcome))]
                /\ tmp_dir' = unlink(tmp_dir, req.tmp_path)
    /\ UNCHANGED <<configVars, pipelineVars, fbVars, unitVars>>

\* the outbound LLM call ends; review_contract runs to its end and the
\* handler responds
CLLMRespond(r, outcome, notify_outcome) ==
    /\ creqs[r].pc = "llm_wait"
    /\ LET req == creqs[r]
           reviewed == review_after_call(req.contract_text, req.section[1], outcome)
       IN  /\ creqs' = [creqs EXCEPT ![r] =
                           Responded([req EXCEPT !.llm_outcome = <<outcome>>],
                                     IF reviewed.ok
                                     THEN report_and_notify(settings, req.original_filename,
                                                            req.section[1], reviewed.val,
                                                            notify_outcome)
                                     ELSE error_outcome("Exception", reviewed.exc))]
           /\ tmp_dir' = unlink(tmp_dir, req.tmp_path)
    /\ UNCHANGED <<configVars, pipelineVars, fbVars, unitVars>>

NextConc ==
    \/ \E r \in Requests, form \in ConcForms : CPost(r, form)
    \/ \E r \in Requests, write_ok \in BOOLEAN : CWrite(r, write_ok)
    \/ \E r \in Requests, notify_outcome \in ConcTelegramOutcomes : CReview(r, notify_outcome)
    \/ \E r \in Requests, outcome \in ConcLLMOutcomes,
          notify_outcome \in ConcTelegramOutcomes : CLLMRespond(r, outcome, notify_outcome)

SpecConc == InitConc /\ [][NextConc]_vars

\* the outcome of a request that runs alone: the stages applied to its form
solo_outcome(settings_, sections_, form, write_ok, llm_outcome_, notify_outcome) ==
    LET filename == IF use_text(form.contract_text) THEN SampleContractTxt
                    ELSE form.contract_file[1].filename
        file == IF use_text(form.contract_text)
                THEN [name |-> TmpName(1), content |-> form.contract_text[1],
                      readable |-> TRUE]
                ELSE [name |-> TmpName(1), content |-> form.contract_file[1].content,
                      readable |-> form.contract_file[1].readable]
        looked == repo_get(sections_, form.checklist_section)
        extracted == extract_text(file, filename)
    IN  IF ~write_ok
        THEN Outcome(500, "Internal Server Error", <<>>, <<>>, <<>>, <<>>)
        ELSE IF ~looked.ok
        THEN error_outcome("KeyError", not_found_message(form.checklist_section))
        ELSE IF ~extracted.ok
        THEN error_outcome(extracted.exc, ExtractMessage(extracted.exc))
        ELSE report_and_notify(settings_, filename, looked.val[1],
                 IF review_calls_llm(settings_)
                 THEN review_after_call(extracted.val, looked.val[1], llm_outcome_[1]).val
                 ELSE review_without_key(extracted.val, looked.val[1]).val,
                 notify_outcome)

\* the content a request submitted
Submitted(form) ==
    IF use_text(form.contract_text) THEN form.contract_text[1]
    ELSE form.contract_file[1].content

\* C17: for any interleaving of two or more concurrent requests no request
\* writes state another request reads: the checklist store is unchanged, a
\* request's temporary file holds what that request wrote, and the outcome
\* of every request is the one it has when it runs alone with the same
\* inputs and the same outcomes of the outbound calls.
C17_NoInterference ==
    /\ sections = Catalog
    /\ \A r \in Requests :
          creqs[r].pc \in {"written", "llm_wait"} =>
              \E f \in tmp_dir : /\ f.path = creqs[r].tmp_path
                                 /\ f.content = Submitted(creqs[r].form[1])
    /\ \A r \in Requests :
          creqs[r].pc = "responded" =>
              \A notify_outcome \in ConcTelegramOutcomes :
                  creqs[r].outcome = <<solo_outcome(settings, Catalog, creqs[r].form[1],
                                                    creqs[r].write_ok, creqs[r].llm_outcome,
                                                    notify_outcome)>>

\* one request has been answered with a review while another one, with a
\* different form, waits for its outbound call
C17_Witness ==
    \E r1, r2 \in Requests :
        /\ r1 # r2
        /\ creqs[r1].pc = "llm_wait"
        /\ creqs[r2].pc = "responded"
        /\ creqs[r2].outcome[1].status_code = 200
        /\ creqs[r1].form # creqs[r2].form

=============================================================================
